---- MODULE Spec2Model ----
(***************************************************************************)
(* Model of buildozer/targets/android.py (class TargetAndroid): the        *)
(* install/version-resolution workflow of the Android target, the         *)
(* package build, the device commands and the license flow.                *)
(*                                                                         *)
(* Representation.  A text value is a sequence of one-character strings    *)
(* (an NDK version "17c" is <<"1","7","c">>); a path is a sequence of      *)
(* components, each component a sequence of strings, so that join() is     *)
(* concatenation and 'android-ndk-r{0}'.format(v) is <<"android-ndk-r">>   *)
(* \o v.  The filesystem is the set of paths that exist.  An unset         *)
(* configuration key, and Python's None, is the empty sequence.            *)
(***************************************************************************)
EXTENDS Integers, Sequences, FiniteSets, TLC

VARIABLES
    config,         \* buildozer.spec [app] keys read by the install workflow
    state,          \* buildozer.state['android:sdk_installation'] (<<>> = absent)
    fs,             \* the paths that exist on disk
    checkout,       \* the python-for-android checkout at p4a_dir (<<>> = none)
    pc,             \* position of install_platform: "idle" or the step to run next
    run,            \* the current run: Target.platform_update, the value of state
                    \* when it started, whether the disk was empty then, and how
                    \* the run before it ended
    rec_version,    \* TargetAndroid.p4a_recommended_ndk_version (<<>> = None)
    calls,          \* commands issued by the current run, in order
    logged,         \* messages logged by the current run
    build_tools,    \* the build-tools decision of this run (<<>> = none yet): the
                    \* versions listed, the one installed, the one requested
    prev,           \* the last finished run: its outcome, the step it ended in,
                    \* and the value of state when it started
    changed,        \* the configuration was edited after the previous run ended
    host,           \* sys.platform, os.uname()[4] and the pointer width of the host
    archive,        \* NDK archive name last computed (<<>> = none)
    unpacked,       \* NDK unpacked directory name last computed (<<>> = none)
    resolved,       \* last value read from android_ndk_version (<<>> = none)
    build_mode,     \* Target.build_mode: "debug" or "release"
    artifact_format,\* self.artifact_format
    os_environ,     \* os.environ: the P4A_RELEASE_* keys that are set, and the
                    \* value of ANDROID_SERIAL (<<>> = not set)
    dist,           \* the dist directory and the SDK as build_package finds them:
                    \* the newest build-tools directory, whether a gradle file
                    \* exists
    build_cmd,      \* the list build_package hands to execute_build_package
    latestapk,      \* buildozer.state['android:latestapk'] and
                    \* ['android:latestmode'] (<<>> = absent)
    serials_cache,  \* self._serials (<<>> = None, else <<list>>)
    adb_output,     \* the lines "adb devices" prints
    serial_list,    \* the last value the serials property returned (<<>> = none
                    \* yet, else <<list>>)
    environ,        \* buildozer.environ, the environment handed to every
                    \* subprocess: the keys the target sets (<<>> = absent)
    device,         \* the device: whether the application's process runs on it
    raised,         \* the steps of the last build_package that raised
    child           \* the sdkmanager child of the license flow: what it will
                    \* still do, what expect() has returned so far, whether it
                    \* is alive, whether it exits at the end of its script, the
                    \* number of lines sent to it and of waits after its script

instVars == <<config, state, fs, checkout, pc, run, rec_version,
              calls, logged, build_tools, prev, changed>>

pureVars == <<host, archive, unpacked, resolved>>

pkgVars == <<build_mode, artifact_format, os_environ, dist, build_cmd, latestapk,
             serials_cache, adb_output, serial_list, device, raised, child>>

vars == <<instVars, pureVars, pkgVars, environ>>

None == <<>>

-----------------------------------------------------------------------------
(* Module constants, android.py lines 13-21 and 53.                         *)

ANDROID_API == <<"3", "1">>
ANDROID_MINAPI == <<"2", "1">>
APACHE_ANT_VERSION == <<"1", ".", "9", ".", "4">>
DEFAULT_ANDROID_NDK_VERSION == <<"1", "7", "c">>
MSG_P4A_RECOMMENDED_NDK_ERROR == "WARNING: Unable to find recommended Android NDK"

-----------------------------------------------------------------------------
(* Text helpers.                                                            *)

Digits == {"0", "1", "2", "3", "4", "5", "6", "7", "8", "9"}

DigitValue(c) ==
    CASE c = "0" -> 0 [] c = "1" -> 1 [] c = "2" -> 2 [] c = "3" -> 3
      [] c = "4" -> 4 [] c = "5" -> 5 [] c = "6" -> 6 [] c = "7" -> 7
      [] c = "8" -> 8 [] c = "9" -> 9

RECURSIVE RemoveAll(_, _)
\* str.replace(c, "") for every one-token c in the set drop
RemoveAll(s, drop) ==
    IF s = <<>> THEN <<>>
    ELSE IF Head(s) \in drop THEN RemoveAll(Tail(s), drop)
    ELSE <<Head(s)>> \o RemoveAll(Tail(s), drop)

StartsWith(s, prefix) ==
    /\ Len(s) >= Len(prefix)
    /\ SubSeq(s, 1, Len(prefix)) = prefix

-----------------------------------------------------------------------------
(* Version resolution: p4a_recommended_android_ndk, android_ndk_version.    *)

\* The text "RECOMMENDED_NDK_VERSION =" is one token of a line.
MARKER == "RECOMMENDED_NDK_VERSION ="

UNWANTED == {"'", "\"", "\n", " "}

MSG_RECOMMENDED_INFO == "Recommended android's NDK version by p4a is"

\* Index of the first line that starts with the marker, 0 when there is none.
FirstMarkerLine(lines) ==
    LET hits == {i \in 1..Len(lines) : StartsWith(lines[i], <<MARKER>>)}
    IN  IF hits = {} THEN 0
        ELSE CHOOSE i \in hits : \A j \in hits : i <= j

\* cache: <<>> for None, <<v>> once a recommendation was read.
\* file:  [exists, lines] for <p4a_dir>/pythonforandroid/recommendations.py.
\* Result: the version returned, the new cache, the messages logged.
p4a_recommended_android_ndk(cache, file) ==
    IF cache # None
    THEN [version |-> cache[1], cache |-> cache, log |-> {}]
    ELSE IF ~file.exists
    THEN [version |-> DEFAULT_ANDROID_NDK_VERSION, cache |-> None,
          log |-> {MSG_P4A_RECOMMENDED_NDK_ERROR}]
    ELSE LET i == FirstMarkerLine(file.lines)
         IN  IF i = 0
             THEN [version |-> DEFAULT_ANDROID_NDK_VERSION, cache |-> None,
                   log |-> {}]
             ELSE LET v == RemoveAll(RemoveAll(file.lines[i], {MARKER}), UNWANTED)
                  IN  [version |-> v, cache |-> <<v>>,
                       log |-> {MSG_RECOMMENDED_INFO}]

NoFile == [exists |-> FALSE, lines |-> <<>>]

\* The recommendations file of the checkout at p4a_dir.
RecFile == IF checkout = None THEN NoFile ELSE checkout.rec

\* getdefault('app', 'android.ndk', self.p4a_recommended_android_ndk): the
\* default is evaluated (with its logging and caching) whatever is configured.
android_ndk_version(cfg, cache, file) ==
    LET r == p4a_recommended_android_ndk(cache, file)
    IN  [r EXCEPT !.version = IF cfg.ndk # None THEN cfg.ndk ELSE r.version]

android_api(cfg) == IF cfg.api # None THEN cfg.api ELSE ANDROID_API

android_minapi(cfg) == IF cfg.minapi # None THEN cfg.minapi ELSE ANDROID_MINAPI

-----------------------------------------------------------------------------
(* Paths.                                                                   *)

GlobalPlatformDir == << <<"global_platform_dir">> >>

PlatformDir == << <<"platform_dir">> >>

join(dir, names) == dir \o names

file_exists(files, path) == path \in files

android_sdk_dir(cfg) ==
    IF cfg.sdk_path # None THEN cfg.sdk_path
    ELSE join(GlobalPlatformDir, << <<"android-sdk">> >>)

android_ndk_dir(cfg, version) ==
    IF cfg.ndk_path # None THEN cfg.ndk_path
    ELSE join(GlobalPlatformDir, << <<"android-ndk-r">> \o version >>)

apache_ant_dir(cfg) ==
    IF cfg.ant_path # None THEN cfg.ant_path
    ELSE join(GlobalPlatformDir, << <<"apache-ant-">> \o APACHE_ANT_VERSION >>)

sdkmanager_file(cfg) ==
    join(android_sdk_dir(cfg), << <<"tools">>, <<"bin">>, <<"sdkmanager">> >>)

-----------------------------------------------------------------------------
(* NDK archive naming, _install_android_ndk lines 420-461.                  *)

RECURSIVE SkipNonDigits(_)
SkipNonDigits(s) ==
    IF s = <<>> \/ Head(s) \in Digits THEN s ELSE SkipNonDigits(Tail(s))

RECURSIVE TakeDigits(_)
TakeDigits(s) ==
    IF s = <<>> \/ Head(s) \notin Digits THEN <<>>
    ELSE <<Head(s)>> \o TakeDigits(Tail(s))

RECURSIVE ToInt(_, _)
ToInt(digits, acc) ==
    IF digits = <<>> THEN acc
    ELSE ToInt(Tail(digits), 10 * acc + DigitValue(Head(digits)))

\* re.search(r'(\d+)', version): the first run of digits, <<>> for no match
DigitRun(version) == TakeDigits(SkipNonDigits(version))

\* int(re.search(r'(\d+)', version).group(1))
LeadingNumber(version) == ToInt(DigitRun(version), 0)

is_windows(h) == h.platform \in {<<"win32">>, <<"cygwin">>}

is_darwin(h) == h.platform = <<"darwin">>

is_linux(h) == StartsWith(h.platform, <<"linux">>)

is_freebsd(h) == StartsWith(h.platform, <<"freebsd">>)

SupportedHost(h) == is_windows(h) \/ is_darwin(h) \/ is_linux(h) \/ is_freebsd(h)

\* 8 * struct.calcsize("P") == 64 on Windows, '64' in os.uname()[4] elsewhere
is_64(h) ==
    IF is_windows(h) THEN h.pointer_bits = 64
    ELSE \E i \in 1..Len(h.machine) : h.machine[i] = "64"

NdkPlatformName(h) == IF is_linux(h) \/ is_freebsd(h) THEN "linux" ELSE "darwin"

\* The legacy boundary moved by one: release 10 itself taken for a zip.
NdkExtBelowTen(version) ==
    IF version \in {<<"1", "0", "c">>, <<"1", "0", "d">>, <<"1", "0", "e">>}
    THEN "bin"
    ELSE IF LeadingNumber(version) < 10 THEN "tar.bz2"
    ELSE "zip"

NdkExt(version) ==
    IF version \in {<<"1", "0", "c">>, <<"1", "0", "d">>, <<"1", "0", "e">>}
    THEN "bin"
    ELSE IF LeadingNumber(version) <= 10 THEN "tar.bz2"
    ELSE "zip"

\* architecture, lines 452-453
NdkArchitecture(h, version) ==
    IF LeadingNumber(version) >= 23 THEN <<>>
    ELSE IF is_64(h) THEN <<"-x86_64">> ELSE <<"-x86">>

\* archive.format(version, architecture), lines 434-455
NdkArchive(h, version) ==
    IF is_windows(h)
    THEN <<"android-ndk-r">> \o version \o <<"-", "windows", ".", "zip">>
    ELSE <<"android-ndk-r">> \o version \o <<"-", NdkPlatformName(h)>>
            \o NdkArchitecture(h, version) \o <<".", NdkExt(version)>>

\* unpacked.format(version), lines 454-456
NdkUnpacked(version) == <<"android-ndk-r">> \o version

NdkUrl(version) ==
    IF LeadingNumber(version) >= 11
    THEN "https://dl.google.com/android/repository/"
    ELSE "https://dl.google.com/android/ndk/"

-----------------------------------------------------------------------------
(* Running external commands.  A step threads a record m through its       *)
(* commands: m.fs, m.co and m.state are the filesystem, the checkout and   *)
(* the persisted state, m.calls the commands issued, m.n their number      *)
(* within the step, m.env the build environment, and m.ok is FALSE once     *)
(* something raised.  The failAt-th command of a step raises (failAt = 0:  *)
(* none does): buildops.cmd, download, file_extract and rename raise on    *)
(* failure and nothing catches them.                                       *)

Begin ==
    [fs |-> fs, co |-> checkout, calls |-> calls, n |-> 0, ok |-> TRUE,
     state |-> state, logged |-> logged, bt |-> build_tools, env |-> environ]

Raise(m) == [m EXCEPT !.ok = FALSE]

\* Issue cmd; on success the filesystem becomes files.
Do(m, cmd, failAt, files) ==
    IF ~m.ok THEN m
    ELSE IF m.n + 1 = failAt
    THEN [m EXCEPT !.calls = Append(@, cmd), !.n = @ + 1, !.ok = FALSE]
    ELSE [m EXCEPT !.calls = Append(@, cmd), !.n = @ + 1, !.fs = files]

\* As Do, for a command whose failure leaves the partial output `part`.
DoPartial(m, cmd, failAt, files, part) ==
    IF ~m.ok THEN m
    ELSE IF m.n + 1 = failAt
    THEN [m EXCEPT !.calls = Append(@, cmd), !.n = @ + 1, !.ok = FALSE,
                   !.fs = @ \cup part]
    ELSE [m EXCEPT !.calls = Append(@, cmd), !.n = @ + 1, !.fs = files]

Note(m, message) == IF m.ok THEN [m EXCEPT !.logged = @ \cup {message}] ELSE m

\* os.makedirs(dir) guarded by "if not os.path.exists(dir)"
Makedirs(m, what, dir) ==
    IF ~m.ok \/ dir \in m.fs THEN m
    ELSE [m EXCEPT !.fs = @ \cup {dir}, !.calls = Append(@, what)]

-----------------------------------------------------------------------------
(* The installers.  partial: a failing extraction leaves what it had        *)
(* already written.                                                         *)

install_apache_ant(m, cfg, failAt, partial) ==
    LET ant_dir == apache_ant_dir(cfg)
        out == {}
        m1 == Makedirs(m, "mkdir ant", ant_dir)
        m2 == Do(m1, "download ant", failAt, m1.fs)
        m3 == DoPartial(m2, "extract ant", failAt, m2.fs \cup out,
                        IF partial THEN out ELSE {})
    IN  IF file_exists(m.fs, ant_dir) THEN m ELSE m3

\* Variant: the SDK counts as present only when its sdkmanager is there.
install_android_sdk_verifying(m, cfg, h, failAt, partial) ==
    LET sdk_dir == android_sdk_dir(cfg)
        out == {sdkmanager_file(cfg)}
        m1 == Makedirs(m, "mkdir sdk", sdk_dir)
        m2 == Do(m1, "download sdk", failAt, m1.fs)
        m3 == DoPartial(m2, "extract sdk", failAt, m2.fs \cup out,
                        IF partial THEN out ELSE {})
    IN  IF file_exists(m.fs, sdkmanager_file(cfg)) THEN m
        ELSE IF ~SupportedHost(h) THEN Raise(m)
        ELSE m3

\* Variant: the directory is created after the download, not before it.
install_android_sdk_late_mkdir(m, cfg, h, failAt, partial) ==
    LET sdk_dir == android_sdk_dir(cfg)
        out == {sdkmanager_file(cfg)}
        m1 == Do(m, "download sdk", failAt, m.fs)
        m2 == Makedirs(m1, "mkdir sdk", sdk_dir)
        m3 == DoPartial(m2, "extract sdk", failAt, m2.fs \cup out,
                        IF partial THEN out ELSE {})
    IN  IF file_exists(m.fs, sdk_dir) THEN m
        ELSE IF ~SupportedHost(h) THEN Raise(m)
        ELSE m3

install_android_sdk(m, cfg, h, failAt, partial) ==
    LET sdk_dir == android_sdk_dir(cfg)
        out == {sdkmanager_file(cfg)}
        m1 == Makedirs(m, "mkdir sdk", sdk_dir)
        m2 == Do(m1, "download sdk", failAt, m1.fs)
        m3 == DoPartial(m2, "extract sdk", failAt, m2.fs \cup out,
                        IF partial THEN out ELSE {})
    IN  IF file_exists(m.fs, sdk_dir) THEN m
        ELSE IF ~SupportedHost(h) THEN Raise(m)
        ELSE m3

\* Variant: the target directory is created before the download, as the
\* Ant and SDK installers do.
install_android_ndk_mkdir_first(m, cfg, h, version, failAt, partial) ==
    LET ndk_dir == android_ndk_dir(cfg, version)
        unp == join(GlobalPlatformDir, <<NdkUnpacked(version)>>)
        m0 == Makedirs(m, "mkdir ndk", ndk_dir)
        m1 == Do(m0, "download ndk", failAt, m0.fs)
        m2 == DoPartial(m1, "extract ndk", failAt, m1.fs \cup {unp},
                        IF partial THEN {unp} ELSE {})
        m3 == Do(m2, "rename ndk", failAt, (m2.fs \ {unp}) \cup {ndk_dir})
    IN  IF file_exists(m.fs, ndk_dir) THEN m
        ELSE IF DigitRun(version) = <<>> THEN Raise(m)
        ELSE IF ~SupportedHost(h) THEN Raise(m)
        ELSE m3

install_android_ndk(m, cfg, h, version, failAt, partial) ==
    LET ndk_dir == android_ndk_dir(cfg, version)
        unp == join(GlobalPlatformDir, <<NdkUnpacked(version)>>)
        m1 == Do(m, "download ndk", failAt, m.fs)
        m2 == DoPartial(m1, "extract ndk", failAt, m1.fs \cup {unp},
                        IF partial THEN {unp} ELSE {})
        m3 == Do(m2, "rename ndk", failAt, (m2.fs \ {unp}) \cup {ndk_dir})
    IN  IF file_exists(m.fs, ndk_dir) THEN m
        ELSE IF DigitRun(version) = <<>> THEN Raise(m)
        ELSE IF ~SupportedHost(h) THEN Raise(m)
        ELSE m3

-----------------------------------------------------------------------------
(* The toolchain checkout, _install_p4a lines 666-773.  The checkout is     *)
(* None when p4a_dir does not exist, and otherwise records the remote URL,  *)
(* the checked-out branch, the recommendations file and whether setup.py    *)
(* can be read.                                                             *)

P4A_FORK_URL == "https://github.com/kivy/python-for-android.git"

p4a_url(cfg) == IF cfg.p4a_url # None THEN cfg.p4a_url[1] ELSE P4A_FORK_URL

p4a_branch(cfg) == IF cfg.p4a_branch # None THEN cfg.p4a_branch[1] ELSE "master"

p4a_commit(cfg) == IF cfg.p4a_commit # None THEN cfg.p4a_commit[1] ELSE "HEAD"

\* A git command: it raises when it fails and leaves the checkout `co`.
Git(m, cmd, failAt, co) ==
    LET m1 == Do(m, cmd, failAt, m.fs)
    IN  IF m1.ok THEN [m1 EXCEPT !.co = co] ELSE m1

\* line 705: any([cur_url != p4a_url, cur_branch != p4a_branch]); update is
\* Target.platform_update, which the test does not read.
StaleCheckoutOnUpdate(co, url, branch, update) ==
    update /\ (co.url # url \/ co.branch # branch)

StaleCheckout(co, url, branch, update) == co.url # url \/ co.branch # branch

\* The reset issued whatever the commit.
ResetWantedAlways(commit) == TRUE

\* line 749
ResetWanted(commit) == commit # "HEAD"

\* lines 692-753, no p4a.source_dir.  co.url is what "git config --get
\* remote.origin.url" prints, co.branch the second word of "git branch -vv",
\* co.head what "git rev-parse --abbrev-ref HEAD" prints, co.commit the commit
\* the work tree was last reset to ("HEAD": the tip of its branch).
p4a_checkout(m, cfg, update, failAt, remote) ==
    LET url == p4a_url(cfg)
        branch == p4a_branch(cfg)
        had == m.co # None
        m1 == IF had
              THEN Git(Git(m, "git config", failAt, m.co), "git branch", failAt, m.co)
              ELSE m
        stale == had /\ StaleCheckout(m.co, url, branch, update)
        m2 == IF m1.ok /\ stale
              THEN [m1 EXCEPT !.co = None, !.calls = Append(@, "rmdir p4a")]
              ELSE m1
        fresh == [url |-> url, branch |-> branch, head |-> branch,
                  commit |-> "HEAD", rec |-> remote, setup |-> TRUE]
        m3 == IF ~m2.ok THEN m2
              ELSE IF m2.co = None THEN Git(m2, "git clone", failAt, fresh)
              ELSE IF update
              THEN LET c1 == Git(m2, "git clean", failAt, m2.co)
                       c2 == Git(c1, "git rev-parse", failAt, m2.co)
                   IN  IF m2.co.head = branch
                       THEN Git(c2, "git pull", failAt, [m2.co EXCEPT !.commit = "HEAD"])
                       ELSE Git(Git(c2, "git fetch", failAt, m2.co),
                                "git checkout", failAt,
                                [m2.co EXCEPT !.branch = branch, !.head = branch,
                                              !.commit = "HEAD"])
              ELSE m2
    IN  IF ResetWanted(p4a_commit(cfg))
        THEN Git(m3, "git reset", failAt,
                 IF m3.co = None THEN None
                 ELSE [m3.co EXCEPT !.commit = p4a_commit(cfg)])
        ELSE m3

\* The override ignored: the checkout handled as if no path were configured.
install_p4a_ignoring_source_dir(m, cfg, update, failAt, remote) ==
    LET m1 == p4a_checkout(m, cfg, update, failAt, remote)
        m2 == IF m1.ok /\ ~m1.co.setup THEN Raise(m1) ELSE m1
    IN  Do(m2, "pip install", failAt, m2.fs)

install_p4a(m, cfg, update, failAt, remote) ==
    LET m1 == IF cfg.source_dir # None
              THEN IF m.co = None THEN Raise(m) ELSE m
              ELSE p4a_checkout(m, cfg, update, failAt, remote)
        \* open(join(p4a_dir, "setup.py")): IOError ends the process
        m2 == IF m1.ok /\ ~m1.co.setup THEN Raise(m1) ELSE m1
    IN  Do(m2, "pip install", failAt, m2.fs)

-----------------------------------------------------------------------------
(* Build-tools versions.  A version is kept as its text; parse() gives the  *)
(* release numbers that order it.                                           *)

BuildToolsVersions == {"9.0.0", "10.0.0"}

\* buildozer.libs.version.parse
parse(v) ==
    CASE v = "0" -> <<0>>
      [] v = "9.0.0" -> <<9, 0, 0>>
      [] v = "10.0.0" -> <<10, 0, 0>>

Part(t, i) == IF i <= Len(t) THEN t[i] ELSE 0

\* a < b for release tuples: numeric, component by component
ReleaseLess(a, b) ==
    LET n == IF Len(a) >= Len(b) THEN Len(a) ELSE Len(b)
    IN  \E i \in 1..n :
            /\ Part(a, i) < Part(b, i)
            /\ \A j \in 1..(i - 1) : Part(a, j) = Part(b, j)

VersionLess(v, w) == ReleaseLess(parse(v), parse(w))

\* max(versions) / sorted(versions)[-1] of a non-empty set
MaxVersion(versions) ==
    CHOOSE v \in versions : \A w \in versions : ~VersionLess(v, w)

build_tools_dir(cfg) == join(android_sdk_dir(cfg), << <<"build-tools">> >>)

\* _read_version_subdir(android_sdk_dir, 'build-tools'), lines 519-534
read_version_subdir(files, cfg) ==
    LET dir == build_tools_dir(cfg)
        versions == {v \in BuildToolsVersions : join(dir, << <<v>> >>) \in files}
    IN  IF dir \notin files THEN "0"
        ELSE IF versions = {} THEN "0"
        ELSE MaxVersion(versions)

\* Variant: >= in place of >.
NewerOrEqualBuildTools(latest, installed) == ~VersionLess(latest, installed)

\* line 585: latest_v_build_tools > installed_v_build_tools
NewerBuildTools(latest, installed) == VersionLess(installed, latest)

-----------------------------------------------------------------------------
(* _install_android_packages, lines 548-611.                                *)

CACHE_KEY == "android:sdk_installation"

cache_value(cfg, version) ==
    <<android_api(cfg), android_minapi(cfg), version,
      android_sdk_dir(cfg), android_ndk_dir(cfg, version)>>

\* Variant: only the versions are compared, the directories are not.
CacheHitVersionsOnly(persisted, value) ==
    /\ persisted # None
    /\ SubSeq(persisted, 1, 3) = SubSeq(value, 1, 3)

\* Variant: the stored list is compared with a tuple, which never matches.
CacheHitNever(persisted, value) == FALSE

\* line 557: the installation recorded in the state is the current one
CacheHit(persisted, value) == persisted = value

\* Variant: the entry is written in a finally block, whatever raised.
CommitAlways(m, value) == [m EXCEPT !.state = value]

\* lines 610-611: reached only when nothing raised before
Commit(m, value) == IF m.ok THEN [m EXCEPT !.state = value] ELSE m

\* _sdkmanager(...): sdkmanager_path raises when the sdkmanager is missing
Sdkmanager(m, cfg, cmd, failAt, files) ==
    IF m.ok /\ ~file_exists(m.fs, sdkmanager_file(cfg)) THEN Raise(m)
    ELSE Do(m, cmd, failAt, files)

\* _android_update_sdk(...): with android.accept_sdk_license the child's exit
\* status is never read (lines 511-517), so the command may return without
\* having installed anything (effective = FALSE).
android_update_sdk(m, cfg, cmd, failAt, files, effective) ==
    Sdkmanager(m, cfg, cmd, failAt,
               IF effective \/ ~cfg.accept_sdk_license THEN files ELSE m.fs)

android_platform(cfg) ==
    join(android_sdk_dir(cfg),
         << <<"platforms">>, <<"android-">> \o android_api(cfg) >>)

\* _check_aidl, lines 613-639: checkbin needs the aidl of the highest
\* installed build-tools; the command must exit with code 1.
check_aidl(m, cfg, failAt) ==
    IF m.ok /\ read_version_subdir(m.fs, cfg) = "0" THEN Raise(m)
    ELSE Do(m, "aidl", failAt, m.fs)

\* lines 576-592.  available: the build-tools versions sdkmanager --list names.
update_build_tools(m, cfg, failAt, available, effective) ==
    LET installed == read_version_subdir(m.fs, cfg)
        m1 == Sdkmanager(m, cfg, "sdkmanager --list", failAt, m.fs)
        m2 == IF available = {}
              THEN Note(m1, "Did not find any build tools available to download")
              ELSE m1
        latest == MaxVersion(available)
        out == {build_tools_dir(cfg), join(build_tools_dir(cfg), << <<latest>> >>)}
        m3 == android_update_sdk(m2, cfg, "sdkmanager build-tools", failAt,
                                 m2.fs \cup out, effective)
        seen == [available |-> available, installed |-> installed,
                 requested |-> None]
    IN  IF ~m2.ok THEN m2
        \* sorted([])[-1] raises IndexError
        ELSE IF available = {} THEN Raise(m2)
        ELSE IF NewerBuildTools(latest, installed) /\ ~cfg.skip_update
        THEN [m3 EXCEPT !.bt = [seen EXCEPT !.requested = <<latest>>]]
        ELSE [m2 EXCEPT !.bt = seen]

\* Variant: a run with android.skip_update leaves the cache entry alone.
install_android_packages_uncached_skip(m, cfg, version, failAt, available, effective) ==
    LET value == cache_value(cfg, version)
        m0 == android_update_sdk(m, cfg, "sdkmanager platform-tools", failAt,
                                 m.fs, effective)
        m1 == IF ~cfg.skip_update
              THEN android_update_sdk(m0, cfg, "sdkmanager --update", failAt,
                                      m0.fs, effective)
              ELSE m
        m2 == update_build_tools(m1, cfg, failAt, available, effective)
        m3 == check_aidl(m2, cfg, failAt)
        m4 == IF ~file_exists(m3.fs, android_platform(cfg)) /\ ~cfg.skip_update
              THEN Sdkmanager(m3, cfg, "sdkmanager platforms", failAt,
                              m3.fs \cup {android_platform(cfg)})
              ELSE m3
    IN  IF CacheHit(m.state, value) THEN m
        ELSE IF cfg.skip_update THEN m4
        ELSE Commit(m4, value)

install_android_packages(m, cfg, version, failAt, available, effective) ==
    LET value == cache_value(cfg, version)
        sdk == android_sdk_dir(cfg)
        tools == {}
        m0 == android_update_sdk(m, cfg, "sdkmanager platform-tools", failAt,
                                 m.fs \cup tools, effective)
        m1 == IF ~cfg.skip_update
              THEN android_update_sdk(m0, cfg, "sdkmanager --update", failAt,
                                      m0.fs, effective)
              ELSE m
        m2 == update_build_tools(m1, cfg, failAt, available, effective)
        m3 == check_aidl(m2, cfg, failAt)
        m4 == IF ~file_exists(m3.fs, android_platform(cfg)) /\ ~cfg.skip_update
              THEN Sdkmanager(m3, cfg, "sdkmanager platforms", failAt,
                              m3.fs \cup {android_platform(cfg)})
              ELSE m3
    IN  IF CacheHit(m.state, value) THEN m
        ELSE Commit(m4, value)

-----------------------------------------------------------------------------
(* The configurations, hosts and initial states explored.                   *)

MaxStepCalls == 8

CustomNdkPath == << <<"opt">>, <<"android-ndk">> >>

CustomSdkPath == << <<"opt">>, <<"android-sdk">> >>

Configs ==
    [api : {None},
     minapi : {None},
     ndk : {None},
     sdk_path : {None},
     ndk_path : {None, CustomNdkPath},
     ant_path : {None},
     skip_update : BOOLEAN,
     accept_sdk_license : BOOLEAN,
     source_dir : {None},
     p4a_url : {None},
     p4a_branch : {None},
     p4a_commit : {None}]

RecommendedFile ==
    [exists |-> TRUE,
     lines |-> << <<"#", "\n">>, <<MARKER, " ", "\"", "2", "5", "b", "\"", "\n">> >>]

RemoteRecFiles == {RecommendedFile}

InitCheckouts ==
    {None,
     [url |-> "https://github.com/old/python-for-android.git", branch |-> "master",
      head |-> "master", commit |-> "HEAD", rec |-> NoFile, setup |-> TRUE]}

\* A state left by an installation under an earlier configuration: the
\* tuple t, or t with one member replaced.
Variants(t) ==
    {t,
     [t EXCEPT ![1] = <<"2", "9">>],
     [t EXCEPT ![2] = <<"2", "4">>],
     [t EXCEPT ![3] = <<"2", "1", "e">>],
     [t EXCEPT ![4] = CustomSdkPath],
     [t EXCEPT ![5] = << <<"opt">>, <<"old-ndk">> >>]}

InitStates(cfg) ==
    {None} \cup
    Variants(cache_value(cfg, IF cfg.ndk # None THEN cfg.ndk ELSE <<"2", "5", "b">>))

LinuxHost == [platform |-> <<"linux">>, machine |-> <<"x86_", "64">>, pointer_bits |-> 64]

NoRun == [outcome |-> "none", last |-> "none", start |-> None, fresh |-> TRUE]

\* __init__, lines 73-77, and an environment in which nothing is packaged.
NoEnviron == [release_keys |-> {}, ANDROID_SERIAL |-> None]

NoDist == [build_tools |-> None, gradle_files |-> FALSE]

\* buildozer.environ before the target has set anything in it
NoBuildEnviron ==
    [ANDROID_SERIAL |-> None, PACKAGES_PATH |-> None, ANDROIDSDK |-> None,
     ANDROIDNDK |-> None, ANDROIDAPI |-> None, ANDROIDMINAPI |-> None]

NoDevice == [running |-> FALSE]

NoChild ==
    [script |-> <<>>, seen |-> <<>>, alive |-> FALSE, hangs |-> FALSE,
     sent |-> 0, idle |-> 0]

PkgInit ==
    /\ environ = NoBuildEnviron
    /\ device = NoDevice
    /\ raised = {}
    /\ child = NoChild
    /\ build_mode = "debug"
    /\ artifact_format = <<"apk">>
    /\ os_environ = NoEnviron
    /\ dist = NoDist
    /\ build_cmd = None
    /\ latestapk = None
    /\ serials_cache = None
    /\ adb_output = <<>>
    /\ serial_list = None

Init ==
    /\ config \in Configs
    /\ state \in InitStates(config)
    /\ fs = {}
    /\ checkout \in InitCheckouts
    /\ pc = "idle"
    /\ run = [update |-> FALSE, start |-> state, after |-> "none", fresh |-> TRUE]
    /\ rec_version = None
    /\ calls = <<>>
    /\ logged = {}
    /\ build_tools = None
    /\ prev = NoRun
    /\ changed = FALSE
    /\ host = LinuxHost
    /\ archive = None
    /\ unpacked = None
    /\ resolved = None
    /\ PkgInit

-----------------------------------------------------------------------------
(* install_platform, lines 641-664, one action per call it makes.           *)

\* The step that ran left m: take its effects, go on to `next` or abort.
Finish(m, next) ==
    /\ fs' = m.fs
    /\ checkout' = m.co
    /\ calls' = m.calls
    /\ state' = m.state
    /\ logged' = m.logged
    /\ build_tools' = m.bt
    /\ environ' = m.env
    /\ IF ~m.ok
       THEN /\ pc' = "idle"
            /\ prev' = [outcome |-> "failed", last |-> pc, start |-> run.start,
                        fresh |-> run.fresh]
       ELSE IF next = "idle"
       THEN /\ pc' = "idle"
            /\ prev' = [outcome |-> "ok", last |-> "done", start |-> run.start,
                        fresh |-> run.fresh]
       ELSE /\ pc' = next
            /\ prev' = prev
    /\ UNCHANGED <<config, run, changed, pureVars, pkgVars>>

\* A new invocation of buildozer: a new TargetAndroid instance.
StartRun ==
    /\ pc = "idle"
    /\ \E update \in BOOLEAN :
           run' = [update |-> update, start |-> state,
                   after |-> IF changed THEN "changed" ELSE prev.outcome,
                   fresh |-> fs = {}]
    /\ pc' = "p4a"
    /\ rec_version' = None
    /\ calls' = <<>>
    /\ logged' = {}
    /\ build_tools' = None
    /\ changed' = FALSE
    /\ environ' = NoBuildEnviron
    /\ UNCHANGED <<config, state, fs, checkout, prev, pureVars, pkgVars>>

\* The user edits buildozer.spec between two runs.
Reconfigure ==
    /\ pc = "idle"
    /\ \E c \in Configs :
          /\ c # config
          /\ c = [config EXCEPT !.skip_update = c.skip_update]
          /\ config' = c
    /\ changed' = TRUE
    /\ UNCHANGED <<state, fs, checkout, pc, run, rec_version, calls, logged,
                   build_tools, prev, pureVars, pkgVars, environ>>

InstallP4a ==
    /\ pc = "p4a"
    /\ \E failAt \in 0..MaxStepCalls, remote \in RemoteRecFiles :
          Finish(install_p4a(Begin, config, run.update, failAt, remote), "ant")
    /\ UNCHANGED rec_version

InstallApacheAnt ==
    /\ pc = "ant"
    /\ \E failAt \in 0..MaxStepCalls, partial \in BOOLEAN :
          Finish(install_apache_ant(Begin, config, failAt, partial), "sdk")
    /\ UNCHANGED rec_version

InstallAndroidSdk ==
    /\ pc = "sdk"
    /\ \E failAt \in 0..MaxStepCalls, partial \in BOOLEAN :
          Finish(install_android_sdk(Begin, config, host, failAt, partial), "ndk")
    /\ UNCHANGED rec_version

\* android_ndk_dir and android_ndk_version are read first (line 414)
InstallAndroidNdk ==
    /\ pc = "ndk"
    /\ LET r == android_ndk_version(config, rec_version, RecFile)
       IN  /\ rec_version' = r.cache
           /\ \E failAt \in 0..MaxStepCalls, partial \in BOOLEAN :
                 Finish(install_android_ndk(
                            [Begin EXCEPT !.logged = @ \cup r.log],
                            config, host, r.version, failAt, partial),
                        "packages")

InstallAndroidPackages ==
    /\ pc = "packages"
    /\ LET r == android_ndk_version(config, rec_version, RecFile)
       IN  /\ rec_version' = r.cache
           /\ \E failAt \in 0..MaxStepCalls, effective \in BOOLEAN,
                 available \in SUBSET BuildToolsVersions :
                 Finish(install_android_packages(
                            [Begin EXCEPT !.logged = @ \cup r.log],
                            config, r.version, failAt, available, effective),
                        "final")

GlobalPackagesDir == << <<"global_packages_dir">> >>

MSG_AAB_REQUIRED ==
    "This buildozer version requires a python-for-android version with AAB (Android App Bundle) support. Please update your pinned version accordingly."

\* _p4a_have_aab_support, lines 322-330: the probe is run with
\* break_on_error=False, a non-zero exit is the answer "no".
p4a_have_aab_support(returncode) == returncode = 0

\* Variant: the answer of the probe is not acted upon.
check_and_export_tolerating(m, cfg, version, returncode) ==
    LET m1 == [m EXCEPT !.calls = Append(@, "p4a aab -h"), !.n = @ + 1]
        m2 == IF p4a_have_aab_support(returncode) THEN m1
              ELSE Note(m1, MSG_AAB_REQUIRED)
    IN  [m2 EXCEPT !.env = [@ EXCEPT !.PACKAGES_PATH = GlobalPackagesDir,
                                     !.ANDROIDSDK = android_sdk_dir(cfg),
                                     !.ANDROIDNDK = android_ndk_dir(cfg, version),
                                     !.ANDROIDAPI = android_api(cfg),
                                     !.ANDROIDMINAPI = android_minapi(cfg)]]

\* install_platform after the installers, lines 648-664: without AAB
\* support the error is logged and BuildozerException raised; with it the
\* build environment is populated.
check_and_export(m, cfg, version, returncode) ==
    LET m1 == [m EXCEPT !.calls = Append(@, "p4a aab -h"), !.n = @ + 1]
    IN  IF ~p4a_have_aab_support(returncode)
        THEN Raise(Note(m1, MSG_AAB_REQUIRED))
        ELSE [m1 EXCEPT !.env = [@ EXCEPT !.PACKAGES_PATH = GlobalPackagesDir,
                                          !.ANDROIDSDK = android_sdk_dir(cfg),
                                          !.ANDROIDNDK = android_ndk_dir(cfg, version),
                                          !.ANDROIDAPI = android_api(cfg),
                                          !.ANDROIDMINAPI = android_minapi(cfg)]]

\* The exit codes of the probe that are told apart.
ProbeReturnCodes == {0, 1}

FinishInstall ==
    /\ pc = "final"
    /\ LET r == android_ndk_version(config, rec_version, RecFile)
       IN  /\ rec_version' = r.cache
           /\ \E returncode \in ProbeReturnCodes :
                 Finish(check_and_export([Begin EXCEPT !.logged = @ \cup r.log],
                                         config, r.version, returncode),
                        "idle")

Next ==
    \/ StartRun
    \/ Reconfigure
    \/ InstallP4a
    \/ InstallApacheAnt
    \/ InstallAndroidSdk
    \/ InstallAndroidNdk
    \/ InstallAndroidPackages
    \/ FinishInstall

Spec == Init /\ [][Next]_vars

-----------------------------------------------------------------------------
(* Vocabulary of the properties.                                            *)

Range(seq) == {seq[i] : i \in 1..Len(seq)}

Last(seq) == IF seq = <<>> THEN "" ELSE seq[Len(seq)]

\* The NDK version, the cache tuple and the directories of the current run.
CurrentVersion == android_ndk_version(config, rec_version, RecFile).version

CurrentValue == cache_value(config, CurrentVersion)

SdkDir == android_sdk_dir(config)

NdkDir == android_ndk_dir(config, CurrentVersion)

AntDir == apache_ant_dir(config)

\* The steps of install_platform that install something.
InstallSteps == {"p4a", "ant", "sdk", "ndk", "packages"}

\* The packages step returned at line 558: it went on without any command.
PackagesSkipped == pc = "packages" /\ pc' = "final" /\ calls' = calls

SdkmanagerCommands ==
    {"sdkmanager platform-tools", "sdkmanager --update", "sdkmanager --list",
     "sdkmanager build-tools", "sdkmanager platforms"}

FetchCommands ==
    {"mkdir ant", "download ant", "extract ant", "mkdir sdk", "download sdk",
     "extract sdk", "download ndk", "extract ndk", "rename ndk"}

GitCommands ==
    {"git config", "git branch", "git clone", "git clean", "git rev-parse",
     "git pull", "git fetch", "git checkout", "git reset", "rmdir p4a"}

-----------------------------------------------------------------------------
(* C1.  _install_android_packages returns at once, with no sdkmanager       *)
(* command and no write of the state, exactly when the persisted value      *)
(* equals the current tuple [api, minapi, ndk version, sdk dir, ndk dir];   *)
(* with no persisted value, or one member different, its steps run: a       *)
(* command is issued or the step raises.                                    *)
C1_SkipIffPersistedEqual ==
    [][pc = "packages" =>
         /\ PackagesSkipped <=> state = CurrentValue
         /\ PackagesSkipped => state' = state /\ fs' = fs]_vars

\* The step was skipped on an equal tuple, in a run that wrote nothing.
C1_Witness ==
    /\ pc = "final"
    /\ state = CurrentValue
    /\ run.start = state
    /\ Range(calls) \cap SdkmanagerCommands = {}

-----------------------------------------------------------------------------
(* C2 as claimed.  The cache entry is written only in a run in which every  *)
(* step installed its component: when the entry was written by this run,    *)
(* the SDK and the NDK are on disk, platform-tools and build-tools were     *)
(* asked of sdkmanager or are up to date, aidl ran and the platform of the  *)
(* configured API is on disk.                                               *)
C2_WrittenOnlyWhenAllInstalled ==
    (pc = "final" /\ state # run.start) =>
        /\ SdkDir \in fs
        /\ NdkDir \in fs
        /\ "sdkmanager platform-tools" \in Range(calls)
        /\ "aidl" \in Range(calls)
        /\ android_platform(config) \in fs

(* C2 amended.  The cache entry is written only by a packages step that     *)
(* ran to its end without raising, after the SDK and NDK installers         *)
(* returned (steps that android.skip_update turns into no-ops count as      *)
(* completed); a run in which an installation step raised leaves the        *)
(* persisted value as it was when the run started.                          *)
C2_WrittenOnlyAfterStepsCompleted ==
    /\ state # run.start =>
          /\ pc \in {"final", "idle"}
          /\ state[4] \in fs
          /\ state[5] \in fs
          /\ "sdkmanager --list" \in Range(calls)
          /\ "aidl" \in Range(calls)
          /\ pc = "idle" => prev.last \in {"final", "done"}
    /\ (pc = "idle" /\ prev.last \in InstallSteps) => state = run.start

\* A run with android.skip_update wrote the entry.
C2_Witness ==
    /\ pc = "final"
    /\ state # run.start
    /\ config.skip_update
    /\ android_platform(config) \notin fs

-----------------------------------------------------------------------------
-----------------------------------------------------------------------------
(* C4 as claimed.  After a run in which a step failed, the next run with    *)
(* the same configuration repeats the whole sequence: no installer is       *)
(* skipped on account of what the failed run left on disk (the failed run   *)
(* started on an empty disk, so all that is on disk is its work).           *)
C4_NextRunRepeatsEverything ==
    (pc = "packages" /\ run.after = "failed" /\ prev.fresh) =>
        {"download ant", "download sdk", "download ndk"} \subseteq Range(calls)

(* C4 amended.  A run in which an installation step failed leaves the cache *)
(* entry as it found it, so in the next run with the same configuration     *)
(* the cache gate does not skip _install_android_packages, unless the entry *)
(* equalled the tuple before the failed run already; the installers of      *)
(* that next run do skip every component whose directory the failed run     *)
(* left on disk.                                                            *)
C4_NextRunRepeatsPackages ==
    [][(/\ pc = "packages"
        /\ run.after = "failed"
        /\ prev.last \in InstallSteps
        /\ prev.start # CurrentValue) => ~PackagesSkipped]_vars

\* The run after a failed one repeated the packages step and skipped the SDK
\* installer, the failed run having started on an empty disk.
C4_Witness ==
    /\ pc = "final"
    /\ run.after = "failed"
    /\ prev.last \in InstallSteps
    /\ prev.fresh
    /\ prev.start # CurrentValue
    /\ "sdkmanager --list" \in Range(calls)
    /\ "download sdk" \notin Range(calls)

-----------------------------------------------------------------------------
(* C5.  The installer that the step at pc runs, its target directory, and   *)
(* the steps a run ends in once that installer has been invoked.            *)

TargetDir ==
    CASE pc = "ant" -> AntDir
      [] pc = "sdk" -> SdkDir
      [] pc = "ndk" -> NdkDir
      [] OTHER -> <<>>

Invoked(step) ==
    CASE step = "ant" -> {"ant", "sdk", "ndk", "packages", "final", "done"}
      [] step = "sdk" -> {"sdk", "ndk", "packages", "final", "done"}
      [] step = "ndk" -> {"ndk", "packages", "final", "done"}
      [] OTHER -> {}

NoEffect == fs' = fs /\ calls' = calls /\ pc' # "idle"

(* C5 as claimed, its last part: an installer run twice in a row (in two    *)
(* consecutive runs) has, the second time, no effect on the filesystem and  *)
(* downloads nothing.                                                       *)
C5_SecondRunOfInstallerNoEffect ==
    [][(pc \in {"ant", "sdk", "ndk"} /\ prev.last \in Invoked(pc)) => NoEffect]_vars

(* C5 amended.  An installer whose target directory exists returns at once: *)
(* no mkdir, download, extract or rename, whatever the directory holds.     *)
(* Hence an installer run again after a run in which it returned, or after  *)
(* a failed run of the Ant or SDK installer, has no effect and downloads    *)
(* nothing; a failed NDK installer run may leave no target directory, and   *)
(* then the next run downloads again.                                       *)
C5_PresentMeansNoEffect ==
    [][(pc \in {"ant", "sdk", "ndk"}) =>
         /\ TargetDir \in fs => NoEffect
         /\ (prev.last \in Invoked(pc) /\ ~(pc = "ndk" /\ prev.last = "ndk"))
               => NoEffect]_vars

\* The SDK installer was skipped on a directory that holds no sdkmanager.
C5_Witness ==
    /\ pc = "ndk"
    /\ SdkDir \in fs
    /\ sdkmanager_file(config) \notin fs
    /\ "download sdk" \notin Range(calls)
    /\ prev.last \in Invoked("sdk")

-----------------------------------------------------------------------------
(* C6 as claimed.  When the download or the extraction of an installer      *)
(* (Ant, SDK, NDK) fails, the run ends with the installer's target          *)
(* directory present.                                                       *)
C6_FailedInstallLeavesDir ==
    /\ (pc = "idle" /\ prev.last = "ant"
          /\ Last(calls) \in {"download ant", "extract ant"}) => AntDir \in fs
    /\ (pc = "idle" /\ prev.last = "sdk"
          /\ Last(calls) \in {"download sdk", "extract sdk"}) => SdkDir \in fs
    /\ (pc = "idle" /\ prev.last = "ndk"
          /\ Last(calls) \in {"download ndk", "extract ndk"}) => NdkDir \in fs

C6_AntSdkDirLeft ==
    /\ (pc = "idle" /\ prev.last = "ant"
          /\ Last(calls) \in {"download ant", "extract ant"}) => AntDir \in fs
    /\ (pc = "idle" /\ prev.last = "sdk"
          /\ Last(calls) \in {"download sdk", "extract sdk"}) => SdkDir \in fs
    /\ (pc = "idle" /\ prev.last = "ndk"
          /\ Last(calls) = "download ndk") => NdkDir \notin fs

C6_NextRunStep ==
    /\ (pc \in {"ant", "sdk"} /\ prev.last = pc) => NoEffect
    /\ (pc = "ndk" /\ NdkDir \notin fs) => "download ndk" \in Range(calls')

(* C6 amended.  When the download or the extraction of the Ant or the SDK   *)
(* installer fails, the run ends with the target directory present (it was  *)
(* created before the download) and nothing is cleaned up, so the next run  *)
(* takes the component for installed and downloads nothing.  The NDK        *)
(* installer creates no directory before its download: a failed NDK         *)
(* download leaves the target directory absent, and the next run attempts   *)
(* the download again.                                                      *)
C6_FailedInstallLeavesAntSdkDir ==
    /\ [](C6_AntSdkDirLeft)
    /\ [][C6_NextRunStep]_vars

\* The run after a failed SDK download went past the SDK installer.
C6_Witness ==
    /\ pc = "ndk"
    /\ prev.last = "sdk"
    /\ SdkDir \in fs
    /\ sdkmanager_file(config) \notin fs
    /\ "download sdk" \notin Range(calls)

-----------------------------------------------------------------------------
(* C8 as claimed.  When the sdkmanager listing names no build-tools version *)
(* the packages step logs an error and goes on without raising: a run that  *)
(* logged the error went on to the aidl check.                              *)
C8_EmptyListingProceeds ==
    "Did not find any build tools available to download" \in logged
        => "aidl" \in Range(calls)

-----------------------------------------------------------------------------
(* C9.  The build-tools version asked of sdkmanager is the highest listed   *)
(* version in numeric dotted order, and it is asked for only when it is     *)
(* strictly higher than the highest installed version: with the installed   *)
(* version equal or higher, no build-tools command is issued.               *)
C9_RequestsStrictlyNewerMaximum ==
    build_tools # None =>
        LET b == build_tools
            top == {v \in b.available :
                      \A w \in b.available : ~ReleaseLess(parse(v), parse(w))}
            asked == "sdkmanager build-tools" \in Range(calls)
        IN  /\ asked <=> b.requested # None
            /\ b.requested # None =>
                  /\ b.requested[1] \in top
                  /\ ReleaseLess(parse(b.installed), parse(b.requested[1]))
            /\ (\E v \in top : ~ReleaseLess(parse(b.installed), parse(v)))
                  => ~asked

\* The higher of two listed versions was requested over a lower installed
\* one.
C9_Witness ==
    /\ build_tools # None
    /\ build_tools.available = {"9.0.0", "10.0.0"}
    /\ build_tools.installed = "9.0.0"
    /\ build_tools.requested = <<"10.0.0">>
    /\ "sdkmanager build-tools" \in Range(calls)

\* The listed maximum equals the installed version: nothing was requested.
C9_WitnessEqual ==
    /\ build_tools # None
    /\ build_tools.installed = "10.0.0"
    /\ "10.0.0" \in build_tools.available
    /\ build_tools.requested = None
    /\ ~config.skip_update

-----------------------------------------------------------------------------
(* NDK version resolution on its own: the android_ndk_version property read *)
(* over recommendation files of up to MaxRecLines lines.                    *)

MaxRecLines == 2

RecLines ==
    {<<"#", "\n">>,
     <<MARKER, " ", "\"", "2", "5", "b", "\"", "\n">>,
     <<MARKER, " ", "'", "2", "3", "b", "'", "\n">>,
     <<" ", MARKER, " ", "'", "2", "1", "e", "'", "\n">>,
     <<MARKER, "\n">>}

RecFiles ==
    {NoFile} \cup
    UNION {{[exists |-> TRUE, lines |-> l] : l \in [1..k -> RecLines]} :
             k \in 0..MaxRecLines}

DefaultConfig ==
    [api |-> None, minapi |-> None, ndk |-> None, sdk_path |-> None,
     ndk_path |-> None, ant_path |-> None, skip_update |-> FALSE,
     accept_sdk_license |-> FALSE, source_dir |-> None, p4a_url |-> None,
     p4a_branch |-> None, p4a_commit |-> None]

InitRec ==
    /\ config \in {[DefaultConfig EXCEPT !.ndk = v] : v \in {None, <<"2", "3", "b">>}}
    /\ checkout \in
          {None} \cup
          {[url |-> P4A_FORK_URL, branch |-> "master", head |-> "master",
            commit |-> "HEAD", rec |-> f, setup |-> TRUE] :
             f \in RecFiles}
    /\ state = None
    /\ fs = {}
    /\ pc = "resolve"
    /\ run = [update |-> FALSE, start |-> None, after |-> "none", fresh |-> TRUE]
    /\ rec_version = None
    /\ calls = <<>>
    /\ logged = {}
    /\ build_tools = None
    /\ prev = NoRun
    /\ changed = FALSE
    /\ host = LinuxHost
    /\ archive = None
    /\ unpacked = None
    /\ resolved = None
    /\ PkgInit

\* One read of self.android_ndk_version, lines 210-213.
ResolveNdk ==
    /\ pc = "resolve"
    /\ LET r == android_ndk_version(config, rec_version, RecFile)
       IN  /\ resolved' = <<r.version>>
           /\ rec_version' = r.cache
           /\ logged' = logged \cup r.log
    /\ UNCHANGED <<config, state, fs, checkout, pc, run, calls, build_tools,
                   prev, changed, host, archive, unpacked, pkgVars, environ>>

NextRec == ResolveNdk

SpecRec == InitRec /\ [][NextRec]_vars

(* C7 as claimed.  With no android.ndk configured, the resolution gives the *)
(* default 17c and logs the warning both when the recommendations file is   *)
(* absent and when it has no line starting with the marker; with a marker   *)
(* line it gives that line's value, quotes, spaces and newline removed.     *)
C7_FallbackWarnsInBothCases ==
    (resolved # None /\ config.ndk = None) =>
        LET i == FirstMarkerLine(RecFile.lines)
        IN  IF ~RecFile.exists \/ i = 0
            THEN /\ resolved[1] = DEFAULT_ANDROID_NDK_VERSION
                 /\ MSG_P4A_RECOMMENDED_NDK_ERROR \in logged
            ELSE resolved[1] =
                   RemoveAll(Tail(RecFile.lines[i]), {"'", "\"", " ", "\n", MARKER})

-----------------------------------------------------------------------------
(* NDK archive naming on its own: lines 420-456 of _install_android_ndk     *)
(* over hosts and NDK versions.                                             *)

Hosts ==
    [platform : {<<"linux">>, <<"freebsd", "13">>, <<"darwin">>, <<"win32">>,
                 <<"cygwin">>, <<"sunos", "5">>},
     machine : {<<"x86_", "64">>, <<"i686">>, <<"aarch", "64">>},
     pointer_bits : {32, 64}]

NdkVersions ==
    {<<"9">>, <<"9", "d">>, <<"1", "0", "b">>, <<"1", "0", "c">>,
     <<"1", "0", "e">>,
     <<"1", "1", "c">>, <<"1", "7", "c">>, <<"2", "2", "b">>, <<"2", "3", "b">>,
     <<"2", "5", "b">>}

InitNdk ==
    /\ config \in {[DefaultConfig EXCEPT !.ndk = v] : v \in NdkVersions}
    /\ host \in Hosts
    /\ checkout = None
    /\ state = None
    /\ fs = {}
    /\ pc = "name"
    /\ run = [update |-> FALSE, start |-> None, after |-> "none", fresh |-> TRUE]
    /\ rec_version = None
    /\ calls = <<>>
    /\ logged = {}
    /\ build_tools = None
    /\ prev = NoRun
    /\ changed = FALSE
    /\ archive = None
    /\ unpacked = None
    /\ resolved = None
    /\ PkgInit

\* Lines 420-456: the names are computed, or SystemError is raised on an
\* unsupported platform.
NameNdkArchive ==
    /\ pc = "name"
    /\ LET version == android_ndk_version(config, rec_version, RecFile).version
       IN  IF DigitRun(version) # <<>> /\ SupportedHost(host)
           THEN /\ archive' = NdkArchive(host, version)
                /\ unpacked' = NdkUnpacked(version)
                /\ pc' = "named"
           ELSE /\ pc' = "raised"
                /\ UNCHANGED <<archive, unpacked>>
    /\ UNCHANGED <<config, state, fs, checkout, run, rec_version, calls, logged,
                   build_tools, prev, changed, host, resolved, pkgVars,
                   environ>>

NextNdk == NameNdkArchive

SpecNdk == InitNdk /\ [][NextNdk]_vars

\* The operating-system part of the archive name.
NdkOsName(h) == IF is_windows(h) THEN "windows" ELSE NdkPlatformName(h)

(* C10 as claimed.  On every supported host the archive is                  *)
(* 'android-ndk-r<version>-<os><suffix>.<ext>', the suffix being '-x86_64'  *)
(* on a 64-bit host and '-x86' on a 32-bit host for a leading version       *)
(* number below 23, and empty exactly from 23 on; the unpacked directory is *)
(* 'android-ndk-r<version>' on every host.                                  *)
C10_ArchiveNameForm ==
    pc = "named" =>
        LET v == config.ndk
            suffix == IF LeadingNumber(v) >= 23 THEN <<>>
                      ELSE IF is_64(host) THEN <<"-x86_64">> ELSE <<"-x86">>
            stem == <<"android-ndk-r">> \o v \o <<"-", NdkOsName(host)>>
                      \o suffix \o <<".">>
        IN  /\ Len(archive) = Len(stem) + 1
            /\ SubSeq(archive, 1, Len(stem)) = stem
            /\ unpacked = <<"android-ndk-r">> \o v

\* The extension the version calls for: 'bin' for 10c, 10d and 10e, 'tar.bz2'
\* for any other version up to release 10, 'zip' from release 11 on.
C11_VersionExt(v) ==
    IF v \in {<<"1", "0", "c">>, <<"1", "0", "d">>, <<"1", "0", "e">>} THEN "bin"
    ELSE IF LeadingNumber(v) <= 10 THEN "tar.bz2"
    ELSE "zip"

(* C11 as claimed.  On every supported host the extension of the archive    *)
(* name follows the version alone: 'bin' for 10c, 10d and 10e, 'tar.bz2'    *)
(* for every other version whose leading number is 10 or less, 'zip' for    *)
(* every version whose leading number is 11 or more.                        *)
C11_ExtFollowsVersionEverywhere ==
    pc = "named" => Last(archive) = C11_VersionExt(config.ndk)

(* C11, amended.  On Linux, FreeBSD and macOS the extension follows the     *)
(* version ('bin' for 10c, 10d, 10e; 'tar.bz2' for the other versions up to *)
(* release 10; 'zip' from release 11 on); on Windows the archive name ends  *)
(* in 'zip' whatever the version.                                           *)
C11_ExtFollowsVersionOffWindows ==
    pc = "named" =>
        Last(archive) = IF is_windows(host) THEN "zip"
                        ELSE C11_VersionExt(config.ndk)

\* A legacy release named on a Unix host, and one named on Windows.
C11_Witness ==
    /\ pc = "named"
    /\ is_darwin(host)
    /\ config.ndk = <<"1", "0", "b">>
    /\ Last(archive) = "tar.bz2"

-----------------------------------------------------------------------------
(* _install_p4a on its own, lines 666-773: every combination of the p4a.*   *)
(* keys against every checkout that may be found at p4a_dir.  With          *)
(* p4a.source_dir set, p4a_dir is that path and `checkout` the directory    *)
(* found there.                                                             *)

FORK_URL == "https://github.com/fork/python-for-android.git"

P4aConfigs ==
    {[DefaultConfig EXCEPT !.source_dir = s, !.p4a_url = u, !.p4a_branch = b,
                           !.p4a_commit = c] :
        s \in {None, << <<"opt">>, <<"p4a">> >>},
        u \in {None, <<FORK_URL>>},
        b \in {None, <<"develop">>},
        c \in {None, <<"HEAD">>, <<"abc123">>}}

P4aCheckouts ==
    {None} \cup
    [url : {P4A_FORK_URL, FORK_URL}, branch : {"master", "develop"},
     head : {"master", "develop"}, commit : {"HEAD"}, rec : {NoFile},
     setup : BOOLEAN]

InitP4a ==
    /\ config \in P4aConfigs
    /\ checkout \in P4aCheckouts
    /\ state = None
    /\ fs = {}
    /\ pc = "idle"
    /\ run = [update |-> FALSE, start |-> None, after |-> "none", fresh |-> TRUE]
    /\ rec_version = None
    /\ calls = <<>>
    /\ logged = {}
    /\ build_tools = None
    /\ prev = NoRun
    /\ changed = FALSE
    /\ host = LinuxHost
    /\ archive = None
    /\ unpacked = None
    /\ resolved = None
    /\ PkgInit

\* self._install_p4a(), line 642, with nothing run after it.
InstallP4aOnly ==
    /\ pc = "p4a"
    /\ \E failAt \in 0..MaxStepCalls, remote \in RemoteRecFiles :
          Finish(install_p4a(Begin, config, run.update, failAt, remote), "idle")
    /\ UNCHANGED rec_version

NextP4a == StartRun \/ InstallP4aOnly

SpecP4a == InitP4a /\ [][NextP4a]_vars

\* The step _install_p4a is about to take, and how the run that took it ended.
P4aStep == pc = "p4a"

(* C12.  With p4a.source_dir configured, _install_p4a issues no git command *)
(* and leaves the directory as it is (the only command it may issue is the  *)
(* dependency installation); if the path is missing it raises with no       *)
(* command issued at all, the dependency installation included.             *)
C12_OverrideOnlyChecked ==
    [][(P4aStep /\ config.source_dir # None) =>
          /\ checkout' = checkout
          /\ Range(calls') \subseteq {"pip install"}
          /\ checkout = None => (calls' = <<>> /\ prev'.outcome = "failed")]_vars

\* A run with the override set that found the directory and installed the
\* dependencies.
C12_Witness ==
    /\ config.source_dir # None
    /\ pc = "idle"
    /\ prev.outcome = "ok"
    /\ calls = <<"pip install">>
    /\ checkout # None

\* A run with the override set that found no directory.
C12_WitnessMissing ==
    /\ config.source_dir # None
    /\ pc = "idle"
    /\ prev.outcome = "failed"
    /\ calls = <<>>
    /\ checkout = None

\* What git reports of the checkout differs from the configured URL or branch.
P4aMismatch ==
    /\ checkout # None
    /\ checkout.url # p4a_url(config) \/ checkout.branch # p4a_branch(config)

\* The step got past the two commands that inspect an existing checkout.
P4aInspected == checkout # None /\ Len(calls') > 2

P4aDeleted == "rmdir p4a" \in Range(calls')

\* A deletion is followed by a clone, and a run that completes leaves a
\* checkout whose remote and branch are the configured ones.
P4aRecloned ==
    /\ P4aDeleted =>
          \E i, j \in 1..Len(calls') :
              i < j /\ calls'[i] = "rmdir p4a" /\ calls'[j] = "git clone"
    /\ prev'.outcome = "ok" =>
          /\ checkout' # None
          /\ checkout'.url = p4a_url(config)
          /\ checkout'.branch = p4a_branch(config)

(* C13 as claimed.  With no override path, an existing checkout is deleted  *)
(* if and only if updates are requested and its remote URL or branch        *)
(* differs from the configured one; a deletion is followed in the same run  *)
(* by a clone, and on completion the checkout matches the configuration.    *)
C13_DeletedIffUpdateAndMismatch ==
    [][(P4aStep /\ config.source_dir = None) =>
          /\ P4aInspected => (P4aDeleted <=> (run.update /\ P4aMismatch))
          /\ checkout = None => ~P4aDeleted
          /\ P4aRecloned]_vars

(* C13, amended.  With no override path, an existing checkout is deleted if *)
(* and only if its remote URL or branch differs from the configured one,    *)
(* whether or not updates are requested; a deletion is followed in the same *)
(* run by a clone of the configured URL and branch, and a run that          *)
(* completes leaves a checkout whose remote and branch match the            *)
(* configuration.                                                           *)
C13_DeletedIffMismatch ==
    [][(P4aStep /\ config.source_dir = None) =>
          /\ P4aInspected => (P4aDeleted <=> P4aMismatch)
          /\ checkout = None => ~P4aDeleted
          /\ P4aRecloned]_vars

\* A run without update that found a checkout of another branch, deleted it
\* and cloned the configured one.
C13_Witness ==
    /\ config.source_dir = None
    /\ pc = "idle"
    /\ prev.outcome = "ok"
    /\ ~run.update
    /\ config.p4a_branch = <<"develop">>
    /\ calls = <<"git config", "git branch", "rmdir p4a", "git clone", "pip install">>
    /\ checkout.branch = "develop"

\* The git commands C14 orders, for a checkout whose rev-parse prints `head`,
\* ending with the dependency installation.
C14_Expected(head, branch, commit) ==
    <<"git config", "git branch", "git clean", "git rev-parse">>
    \o (IF head = branch THEN <<"git pull">> ELSE <<"git fetch", "git checkout">>)
    \o (IF commit # "HEAD" THEN <<"git reset">> ELSE <<>>)
    \o <<"pip install">>

\* An update of an existing checkout that matches the configuration.
C14_UpdateOfMatching ==
    /\ P4aStep
    /\ config.source_dir = None
    /\ run.update
    /\ checkout # None
    /\ ~P4aMismatch

C14_OrderedStep ==
    C14_UpdateOfMatching =>
        LET branch == p4a_branch(config)
            commit == p4a_commit(config)
            expected == C14_Expected(checkout.head, branch, commit)
        IN  /\ Len(calls') <= Len(expected)
            /\ calls' = SubSeq(expected, 1, Len(calls'))
            /\ prev'.outcome = "ok" =>
                  /\ calls' = expected
                  /\ checkout'.head = branch
                  /\ checkout'.commit = commit

(* C14.  Updating an existing checkout that matches the configured URL and *)
(* branch issues: clean, then pull when the checked-out branch is the       *)
(* configured one and otherwise fetch followed by checkout of the           *)
(* configured branch, then a hard reset to the configured commit exactly    *)
(* when that commit is not 'HEAD' (a run that raises issues a prefix of     *)
(* this sequence); with commit 'HEAD' no run ever issues a reset.           *)
C14_UpdateCommandOrder ==
    /\ [][C14_OrderedStep]_vars
    /\ [](p4a_commit(config) = "HEAD" => "git reset" \notin Range(calls))

\* An update that found another branch checked out, fetched and checked out
\* the configured one and reset it to the configured commit.
C14_Witness ==
    /\ config.source_dir = None
    /\ pc = "idle"
    /\ prev.outcome = "ok"
    /\ run.update
    /\ config.p4a_commit = <<"abc123">>
    /\ calls = <<"git config", "git branch", "git clean", "git rev-parse",
                 "git fetch", "git checkout", "git reset", "pip install">>
    /\ checkout.commit = "abc123"

\* An update with commit 'HEAD' that pulled and issued no reset.
C14_WitnessPull ==
    /\ config.source_dir = None
    /\ pc = "idle"
    /\ prev.outcome = "ok"
    /\ run.update
    /\ p4a_commit(config) = "HEAD"
    /\ calls = <<"git config", "git branch", "git clean", "git rev-parse",
                 "git pull", "pip install">>

-----------------------------------------------------------------------------
(* build_package and execute_build_package, lines 831-982 and 1093-1363.    *)
(* An argument is a text; a build_cmd entry is a tuple of arguments; the    *)
(* command handed to the toolchain is a sequence of arguments.              *)

\* A one-piece text.
T(s) == <<s>>

\* config.getdefault(section, key, default): the value as written, or the
\* default when the key is absent.
getdefault(v, default) == IF v = None THEN default ELSE v

\* config.getbooldefault(section, key, default)
TRUE_TEXTS == {T("1"), T("yes"), T("true"), T("True"), T("on")}

getbooldefault(v, default) == IF v = None THEN default ELSE v \in TRUE_TEXTS

\* Python's truth value of a string (or of the default False / None)
Truthy(v) == v # None

\* join(self.buildozer.root_dir, name)
InRoot(name) == <<"<root_dir>", "/">> \o name

\* build_cmd += [(flag, value)] for each value of a list key
Each(flag, values) == [i \in 1..Len(values) |-> <<T(flag), values[i]>>]

\* build_cmd += [(flag, value)] when the text is not empty
IfSet(flag, value) == IF Truthy(value) THEN << <<T(flag), value>> >> ELSE <<>>

IfSetInRoot(flag, value) ==
    IF Truthy(value) THEN << <<T(flag), InRoot(value)>> >> ELSE <<>>

\* str.upper() on the letters a category is written with
UpperChar(c) ==
    CASE c = "a" -> "A" [] c = "e" -> "E" [] c = "g" -> "G" [] c = "m" -> "M"
      [] c = "p" -> "P" [] c = "t" -> "T" [] c = "v" -> "V" [] OTHER -> c

upper(s) == [i \in 1..Len(s) |-> UpperChar(s[i])]

OUYA_CATEGORIES == {<<"G", "A", "M", "E">>, <<"A", "P", "P">>}

\* The category compared as written, not upper-cased.
ouya_category_as_written(cfg) == getdefault(cfg.ouya_category, <<>>)

\* lines 1223-1224
ouya_category(cfg) == upper(getdefault(cfg.ouya_category, <<>>))

\* line 1226: the category is set and is none of the two accepted
OuyaInvalid(cfg) ==
    Truthy(ouya_category(cfg)) /\ ouya_category(cfg) \notin OUYA_CATEGORIES

\* lines 1225-1235
OuyaArgs(cfg) ==
    IF Truthy(ouya_category(cfg))
    THEN << <<T("--ouya-category"), ouya_category(cfg)>>,
            <<T("--ouya-icon"), InRoot(getdefault(cfg.ouya_icon, <<>>))>> >>
    ELSE <<>>

\* self.android_api > "28", line 1256: a comparison of strings
RECURSIVE StrLess(_, _)
CharRank(c) ==
    CASE c = "." -> 0 [] c \in Digits -> 1 + DigitValue(c) [] OTHER -> 11

StrLess(a, b) ==
    IF b = <<>> THEN FALSE
    ELSE IF a = <<>> THEN TRUE
    ELSE IF Head(a) # Head(b) THEN CharRank(Head(a)) < CharRank(Head(b))
    ELSE StrLess(Tail(a), Tail(b))

\* lines 1237-1246
ScreenArgs(cfg) ==
    IF getdefault(cfg.bootstrap, T("sdl2")) # T("service_only")
    THEN Each("--orientation", getdefault(cfg.orientation, <<T("landscape")>>))
         \o (IF ~getbooldefault(cfg.fullscreen, TRUE)
             THEN << <<T("--window")>> >> ELSE <<>>)
    ELSE <<>>

\* lines 1201-1220
PresplashIconArgs(cfg) ==
    (IF Truthy(cfg.presplash_lottie)
     THEN IfSetInRoot("--presplash-lottie", cfg.presplash_lottie)
     ELSE IfSetInRoot("--presplash", cfg.presplash))
    \o IfSetInRoot("--icon", cfg.icon)
    \o (IF Truthy(cfg.icon_fg) /\ Truthy(cfg.icon_bg)
        THEN << <<T("--icon-fg"), InRoot(cfg.icon_fg)>>,
                <<T("--icon-bg"), InRoot(cfg.icon_bg)>> >>
        ELSE <<>>)

\* str.lower() on the letters a package name is written with
LowerChar(c) ==
    CASE c = "A" -> "a" [] c = "M" -> "m" [] c = "O" -> "o" [] c = "P" -> "p"
      [] OTHER -> c

lower(s) == [i \in 1..Len(s) |-> LowerChar(s[i])]

\* _get_package, lines 1075-1081
get_package(cfg) ==
    lower(IF Truthy(cfg.package_domain)
          THEN cfg.package_domain \o <<".">> \o cfg.package_name
          ELSE cfg.package_name)

\* lines 1296-1301: build_cmd += [("debug", )] or [("release", )]
ModeEntry(mode) == << <<T(mode)>> >>

\* lines 1127-1293: the entries of build_cmd before the build mode
BuildOptions(cfg) ==
    << <<T("--name"), cfg.title>>,
       <<T("--version"), cfg.version>>,
       <<T("--package"), get_package(cfg)>>,
       <<T("--minsdk"), getdefault(cfg.minapi, android_minapi(cfg))>>,
       <<T("--ndk-api"), getdefault(cfg.minapi, android_minapi(cfg))>>,
       <<T("--private"), T("<app_dir>")>> >>
    \o Each("--permission", cfg.permissions)
    \o Each("--feature", cfg.features)
    \o Each("--res_xml", [i \in 1..Len(cfg.res_xml) |-> InRoot(cfg.res_xml[i])])
    \o << <<T("--android-entrypoint"),
            getdefault(cfg.entrypoint, T("org.kivy.android.PythonActivity"))>>,
          <<T("--android-apptheme"),
            getdefault(cfg.apptheme, T("@android:style/Theme.NoTitleBar"))>> >>
    \o Each("--add-compile-option", cfg.add_compile_options)
    \o Each("--add-gradle-repository", cfg.add_gradle_repositories)
    \o Each("--add-packaging-option", cfg.add_packaging_options)
    \o Each("--meta-data", cfg.meta_data)
    \o Each("--add-jar", [i \in 1..Len(cfg.add_jars) |-> InRoot(cfg.add_jars[i])])
    \o Each("--add-activity", cfg.add_activities)
    \o PresplashIconArgs(cfg)
    \o OuyaArgs(cfg)
    \o ScreenArgs(cfg)
    \o (IF getbooldefault(cfg.wakelock, FALSE)
        THEN << <<T("--wakelock")>> >> ELSE <<>>)
    \o (IF getbooldefault(cfg.enable_androidx, StrLess(<<"2", "8">>, android_api(cfg)))
        THEN << <<T("--enable-androidx")>> >> ELSE <<>>)
    \o IfSetInRoot("--intent-filters", cfg.intent_filters)
    \o IfSet("--activity-launch-mode", cfg.launch_mode)
    \o IfSet("--manifest-orientation", cfg.manifest_orientation)
    \o IfSet("--numeric-version", cfg.numeric_version)
    \o (IF ~getbooldefault(cfg.allow_backup, TRUE)
        THEN << <<T("--allow-backup"), T("false")>> >> ELSE <<>>)
    \o IfSetInRoot("--backup-rules", cfg.backup_rules)

\* lines 1127-1303: build_cmd as handed to execute_build_package
BuildCmd(cfg, mode) == BuildOptions(cfg) \o ModeEntry(mode)

\* check_p4a_sign_env, lines 990-1001
RELEASE_KEYS == {"KEYALIAS", "KEYSTORE_PASSWD", "KEYSTORE", "KEYALIAS_PASSWD"}

\* Variant: the two passwords are not asked for.
check_p4a_sign_env_without_passwords(env) ==
    {"KEYALIAS", "KEYSTORE"} \subseteq env.release_keys

check_p4a_sign_env(env) == RELEASE_KEYS \subseteq env.release_keys

\* "debug" passed on to the toolchain like any other entry.
TranslateKeepingDebug(args, env) ==
    IF args[1] = T("release")
    THEN <<T("--release")>> \o (IF check_p4a_sign_env(env) THEN <<T("--sign")>> ELSE <<>>)
    ELSE IF args[1] = T("--window") THEN <<T("--window")>>
    ELSE IF args[1] = T("--sdk") THEN <<T("--android_api")>> \o Tail(args)
    ELSE args

\* lines 837-851: what one entry of build_cmd adds to cmd
Translate(args, env) ==
    IF args[1] = T("debug") THEN <<>>
    ELSE IF args[1] = T("release")
    THEN <<T("--release")>> \o (IF check_p4a_sign_env(env) THEN <<T("--sign")>> ELSE <<>>)
    ELSE IF args[1] = T("--window") THEN <<T("--window")>>
    ELSE IF args[1] = T("--sdk") THEN <<T("--android_api")>> \o Tail(args)
    ELSE args

RECURSIVE TranslateAll(_, _)
TranslateAll(cmds, env) ==
    IF cmds = <<>> THEN <<>>
    ELSE Translate(Head(cmds), env) \o TranslateAll(Tail(cmds), env)

\* cmd.append(flag); cmd.append(value) for each value of a list key
Pairs(flag, values) ==
    IF values = <<>> THEN <<>>
    ELSE [i \in 1..(2 * Len(values)) |->
            IF i % 2 = 1 THEN T(flag) ELSE values[i \div 2]]

PairIfSet(flag, value) == IF Truthy(value) THEN <<T(flag), value>> ELSE <<>>

\* realpath(expanduser(path))
RealPath(path) == <<"<realpath>", "/">> \o path

\* open(path, 'rt').read()
ContentOf(path) == <<"<content of>">> \o path

\* lines 871-876
DisplayCutout(cfg) ==
    LET v == getdefault(cfg.display_cutout, T("never"))
    IN  IF v = T("default") THEN <<T("--display-cutout=default")>>
        ELSE IF v = T("shortedges") THEN <<T("--display-cutout=shortEdges")>>
        ELSE <<>>

\* lines 973-975: config.getdefault(..., False) and the value's truth
NoByteCompile(cfg) == Truthy(getdefault(cfg.no_byte_compile, None))

\* lines 853-980: the arguments execute_build_package adds from configuration
ExtraArgs(cfg) ==
    PairIfSet("--presplash-color", cfg.presplash_color)
    \o Pairs("--service", cfg.services)
    \o (IF getbooldefault(cfg.copy_libs, TRUE) THEN <<T("--copy-libs")>> ELSE <<>>)
    \o (IF getbooldefault(cfg.home_app, FALSE) THEN <<T("--home-app")>> ELSE <<>>)
    \o DisplayCutout(cfg)
    \o (IF Truthy(cfg.local_recipes)
        THEN <<T("--local-recipes"), RealPath(cfg.local_recipes)>> ELSE <<>>)
    \o (IF Truthy(cfg.whitelist_src)
        THEN <<T("--whitelist"), RealPath(cfg.whitelist_src)>> ELSE <<>>)
    \o (IF Truthy(cfg.blacklist_src)
        THEN <<T("--blacklist"), RealPath(cfg.blacklist_src)>> ELSE <<>>)
    \o Pairs("--add-source", [i \in 1..Len(cfg.add_src) |-> RealPath(cfg.add_src[i])])
    \o Pairs("--add-aar", [i \in 1..Len(cfg.add_aars) |-> RealPath(cfg.add_aars[i])])
    \o Pairs("--add-asset", [i \in 1..Len(cfg.add_assets) |->
                RealPath(cfg.add_assets[i]) \o <<":">> \o cfg.add_assets[i]])
    \o Pairs("--add-resource", [i \in 1..Len(cfg.add_resources) |->
                RealPath(cfg.add_resources[i]) \o <<":">>])
    \o [i \in 1..Len(cfg.uses_library) |-> <<"--uses-library=">> \o cfg.uses_library[i]]
    \o (IF getdefault(cfg.activity_class_name, T("org.kivy.android.PythonActivity"))
           # T("org.kivy.android.PythonActivity")
        THEN << <<"--activity-class-name=">> \o cfg.activity_class_name >> ELSE <<>>)
    \o (IF getdefault(cfg.service_class_name, T("org.kivy.android.PythonService"))
           # T("org.kivy.android.PythonService")
        THEN << <<"--service-class-name=">> \o cfg.service_class_name >> ELSE <<>>)
    \o (IF Truthy(cfg.extra_manifest_xml)
        THEN <<T("--extra-manifest-xml"), ContentOf(cfg.extra_manifest_xml)>>
        ELSE <<>>)
    \o (IF Truthy(cfg.extra_manifest_application_arguments)
        THEN <<T("--extra-manifest-application-arguments"),
               ContentOf(cfg.extra_manifest_application_arguments)>>
        ELSE <<>>)
    \o Pairs("--depend", cfg.gradle_dependencies)
    \o PairIfSet("--manifest-placeholders", cfg.manifest_placeholders)
    \o (IF NoByteCompile(cfg) THEN <<T("--no-byte-compile-python")>> ELSE <<>>)
    \o Pairs("--arch", cfg.archs)

\* lines 831-980: cmd as execute_build_package hands it to self._p4a
PackageCmd(cfg, format, cmds, env) ==
    <<format, T("--bootstrap"), getdefault(cfg.bootstrap, T("sdl2")),
      T("--dist_name"), cfg.package_name>>
    \o TranslateAll(cmds, env)
    \o ExtraArgs(cfg)

\* _p4a, lines 139-144: [*self._p4a_cmd, *cmd, *self.extra_p4a_args]
P4aCommand(cmd) ==
    <<T("python"), T("-m"), T("pythonforandroid.toolchain")>> \o cmd
    \o <<T("--color=never"), T("--storage-dir=<build_dir>")>>

\* Signed builds only named 'release', whatever the format.
get_release_mode_signed_only(env, format) ==
    IF check_p4a_sign_env(env) THEN "release" ELSE "release-unsigned"

\* get_release_mode, lines 984-988
get_release_mode(env, format) ==
    IF check_p4a_sign_env(env) \/ format \in {T("aab"), T("aar")}
    THEN "release" ELSE "release-unsigned"

\* archs_snake, lines 272-273: "_".join(self._archs)
RECURSIVE JoinWith(_, _)
JoinWith(texts, sep) ==
    IF texts = <<>> THEN <<>>
    ELSE IF Len(texts) = 1 THEN texts[1]
    ELSE texts[1] \o <<sep>> \o JoinWith(Tail(texts), sep)

archs_snake(cfg) == JoinWith(cfg.archs, "_")

\* lines 1315-1322: the newest build-tools directory is named "25.0" or
\* more (as strings) and the dist directory holds a gradle file
is_gradle_build(d) ==
    ~StrLess(d.build_tools, <<"2", "5", ".", "0">>) /\ d.gradle_files

GRADLE_FORMATS == {T("apk"), T("aab"), T("aar")}

\* lines 1325-1348: the name of the file the toolchain built
Artifact(cfg, d, mode, format) ==
    IF is_gradle_build(d)
    THEN cfg.package_name \o <<"-", mode, ".">> \o format
    ELSE RemoveAll(cfg.title, {"'", "\"", " ", ","})
         \o <<"-">> \o cfg.version \o <<"-", mode, ".", "apk">>

\* lines 1350-1352
ArtifactDest(cfg, mode, format) ==
    cfg.package_name \o <<"-">> \o cfg.version \o <<"-">> \o archs_snake(cfg)
    \o <<"-", mode, ".">> \o format

BinDir == << T("bin") >>

\* self.buildozer.hook(name)
Hook(name) == <<T("hook"), T(name)>>

\* buildops.file_copy(join(artifact_dir, artifact), join(bin_dir, artifact_dest))
FileCopy(artifact, dest) == <<T("file_copy"), artifact, dest>>

(* build_package, lines 1093-1363.  failing: the steps that raise, among 1  *)
(* the first package build, 2 the pre-build hook, 3 the second package      *)
(* build, 4 the post-build hook, 5 the copy of the artifact.  First a       *)
(* variant without the try block of lines 1307-1313.                        *)
build_package_hooks_fatal(cfg, mode, format, env, d, files, persisted, failing) ==
    LET start == [ok |-> TRUE, calls |-> <<>>, fs |-> files, raised |-> {},
                  latestapk |-> persisted, build_cmd |-> None]
        cmds == BuildCmd(cfg, mode)
        name_mode == IF mode = "debug" THEN "debug" ELSE get_release_mode(env, format)
        cmd == P4aCommand(PackageCmd(cfg, format, cmds, env))
        hooked == <<cmd, Hook("android_pre_build_apk")>>
                  \o (IF 2 \in failing THEN <<>>
                      ELSE <<cmd>> \o (IF 3 \in failing THEN <<>>
                                       ELSE <<Hook("android_post_build_apk")>>))
        in_try == IF 2 \in failing THEN {2} ELSE IF 3 \in failing THEN {3}
                  ELSE IF 4 \in failing THEN {4} ELSE {}
        built == [start EXCEPT !.build_cmd = cmds, !.calls = hooked,
                               !.raised = in_try]
        dest == ArtifactDest(cfg, name_mode, format)
        copy == FileCopy(Artifact(cfg, d, name_mode, format), dest)
    IN  IF OuyaInvalid(cfg) THEN [start EXCEPT !.ok = FALSE]
        ELSE IF 1 \in failing
        THEN [start EXCEPT !.ok = FALSE, !.build_cmd = cmds, !.calls = <<cmd>>,
                           !.raised = {1}]
        ELSE IF in_try # {} THEN [built EXCEPT !.ok = FALSE]
        ELSE IF d.build_tools = None
                \/ (is_gradle_build(d) /\ format \notin GRADLE_FORMATS)
        THEN [built EXCEPT !.ok = FALSE]
        ELSE IF 5 \in failing
        THEN [built EXCEPT !.ok = FALSE, !.calls = Append(@, copy),
                           !.raised = @ \cup {5}]
        ELSE [built EXCEPT !.calls = Append(@, copy),
                           !.fs = @ \cup {BinDir \o <<dest>>},
                           !.latestapk = [apk |-> dest, mode |-> mode]]

\* Variant: the state is written before the artifact is copied.
build_package_recording_first(cfg, mode, format, env, d, files, persisted, failing) ==
    LET start == [ok |-> TRUE, calls |-> <<>>, fs |-> files, raised |-> {},
                  latestapk |-> persisted, build_cmd |-> None]
        cmds == BuildCmd(cfg, mode)
        name_mode == IF mode = "debug" THEN "debug" ELSE get_release_mode(env, format)
        cmd == P4aCommand(PackageCmd(cfg, format, cmds, env))
        hooked == <<cmd, Hook("android_pre_build_apk")>>
                  \o (IF 2 \in failing THEN <<>>
                      ELSE <<cmd>> \o (IF 3 \in failing THEN <<>>
                                       ELSE <<Hook("android_post_build_apk")>>))
        in_try == IF 2 \in failing THEN {2} ELSE IF 3 \in failing THEN {3}
                  ELSE IF 4 \in failing THEN {4} ELSE {}
        dest == ArtifactDest(cfg, name_mode, format)
        built == [start EXCEPT !.build_cmd = cmds, !.calls = hooked,
                               !.raised = in_try,
                               !.latestapk = [apk |-> dest, mode |-> mode]]
        copy == FileCopy(Artifact(cfg, d, name_mode, format), dest)
    IN  IF OuyaInvalid(cfg) THEN [start EXCEPT !.ok = FALSE]
        ELSE IF 1 \in failing
        THEN [start EXCEPT !.ok = FALSE, !.build_cmd = cmds, !.calls = <<cmd>>,
                           !.raised = {1}]
        ELSE IF d.build_tools = None
                \/ (is_gradle_build(d) /\ format \notin GRADLE_FORMATS)
        THEN [built EXCEPT !.ok = FALSE]
        ELSE IF 5 \in failing
        THEN [built EXCEPT !.ok = FALSE, !.calls = Append(@, copy),
                           !.raised = @ \cup {5}]
        ELSE [built EXCEPT !.calls = Append(@, copy),
                           !.fs = @ \cup {BinDir \o <<dest>>}]

build_package(cfg, mode, format, env, d, files, persisted, failing) ==
    LET start == [ok |-> TRUE, calls |-> <<>>, fs |-> files, raised |-> {},
                  latestapk |-> persisted, build_cmd |-> None]
        cmds == BuildCmd(cfg, mode)
        name_mode == IF mode = "debug" THEN "debug" ELSE get_release_mode(env, format)
        cmd == P4aCommand(PackageCmd(cfg, format, cmds, env))
        \* lines 1305-1313: a raise inside the try block is swallowed, and
        \* what follows it in the block is not run
        hooked == <<cmd, Hook("android_pre_build_apk")>>
                  \o (IF 2 \in failing THEN <<>>
                      ELSE <<cmd>> \o (IF 3 \in failing THEN <<>>
                                       ELSE <<Hook("android_post_build_apk")>>))
        in_try == IF 2 \in failing THEN {2} ELSE IF 3 \in failing THEN {3}
                  ELSE IF 4 \in failing THEN {4} ELSE {}
        built == [start EXCEPT !.build_cmd = cmds, !.calls = hooked,
                               !.raised = in_try]
        dest == ArtifactDest(cfg, name_mode, format)
        copy == FileCopy(Artifact(cfg, d, name_mode, format), dest)
    IN  IF OuyaInvalid(cfg) THEN [start EXCEPT !.ok = FALSE]
        ELSE IF 1 \in failing
        THEN [start EXCEPT !.ok = FALSE, !.build_cmd = cmds, !.calls = <<cmd>>,
                           !.raised = {1}]
        \* build_tools_versions[-1] on an empty listing; artifact_dir unbound
        ELSE IF d.build_tools = None
                \/ (is_gradle_build(d) /\ format \notin GRADLE_FORMATS)
        THEN [built EXCEPT !.ok = FALSE]
        ELSE IF 5 \in failing
        THEN [built EXCEPT !.ok = FALSE, !.calls = Append(@, copy),
                           !.raised = @ \cup {5}]
        ELSE [built EXCEPT !.calls = Append(@, copy),
                           !.fs = @ \cup {BinDir \o <<dest>>},
                           !.latestapk = [apk |-> dest, mode |-> mode]]

-----------------------------------------------------------------------------
(* Packaging on its own: cmd_debug or cmd_release, then build_package.      *)

\* A buildozer.spec with the required keys and everything else left out.
DefaultBuildConfig ==
    [api |-> None, minapi |-> None, ndk |-> None, sdk_path |-> None,
     ndk_path |-> None, ant_path |-> None, skip_update |-> FALSE,
     accept_sdk_license |-> FALSE, source_dir |-> None, p4a_url |-> None,
     p4a_branch |-> None, p4a_commit |-> None,
     title |-> <<"M", "y", " ", "A", "p", "p">>,
     package_name |-> <<"m", "y", "a", "p", "p">>,
     package_domain |-> <<"o", "r", "g", ".", "t", "e", "s", "t">>,
     version |-> <<"0", ".", "1">>,
     archs |-> <<T("arm64-v8a"), T("armeabi-v7a")>>,
     debug_artifact |-> None, release_artifact |-> None,
     permissions |-> <<T("INTERNET")>>, features |-> <<>>, res_xml |-> <<>>,
     entrypoint |-> None, apptheme |-> None, add_compile_options |-> <<>>,
     add_gradle_repositories |-> <<>>, add_packaging_options |-> <<>>,
     meta_data |-> <<>>, add_jars |-> <<>>, add_activities |-> <<>>,
     presplash_lottie |-> None, presplash |-> None, icon |-> T("icon.png"),
     icon_fg |-> None, icon_bg |-> None, ouya_category |-> None,
     ouya_icon |-> None, bootstrap |-> None, orientation |-> None,
     fullscreen |-> None, wakelock |-> None, enable_androidx |-> None,
     intent_filters |-> None, launch_mode |-> None,
     manifest_orientation |-> None, numeric_version |-> None,
     allow_backup |-> None, backup_rules |-> None, presplash_color |-> None,
     services |-> <<T("worker:service.py")>>, copy_libs |-> None,
     home_app |-> None, display_cutout |-> None, local_recipes |-> None,
     whitelist_src |-> None, blacklist_src |-> None, add_src |-> <<>>,
     add_aars |-> <<>>, add_assets |-> <<>>, add_resources |-> <<>>,
     uses_library |-> <<>>, activity_class_name |-> None,
     service_class_name |-> None, extra_manifest_xml |-> None,
     extra_manifest_application_arguments |-> None,
     gradle_dependencies |-> <<>>, manifest_placeholders |-> None,
     no_byte_compile |-> None, logcat_pid_only |-> None]

\* The boolean keys of the command builder.
BOOLEAN_KEYS ==
    {"fullscreen", "wakelock", "enable_androidx", "allow_backup", "copy_libs",
     "home_app", "no_byte_compile"}

\* The default configuration, or one boolean key written out as True or False;
\* with each bootstrap, OUYA category and artifact format.
BuildConfigs ==
    LET booleans == {DefaultBuildConfig} \cup
                    {[DefaultBuildConfig EXCEPT ![k] = v] :
                        k \in BOOLEAN_KEYS, v \in {T("True"), T("False")}}
    IN  {[c EXCEPT !.bootstrap = b, !.ouya_category = o, !.debug_artifact = a,
                   !.release_artifact = r] :
            c \in booleans,
            b \in {None, T("service_only")},
            o \in {None, <<"g", "a", "m", "e">>, <<"A", "P", "P">>, <<"t", "v">>},
            a \in {None, T("aar")},
            r \in {None, T("apk")}}

BuildEnvirons ==
    {[release_keys |-> k, ANDROID_SERIAL |-> None] :
        k \in {RELEASE_KEYS, RELEASE_KEYS \ {"KEYSTORE"}}}

Dists ==
    {[build_tools |-> <<"3", "0", ".", "0", ".", "3">>, gradle_files |-> TRUE],
     [build_tools |-> <<"3", "0", ".", "0", ".", "3">>, gradle_files |-> FALSE]}

BuildSteps == 1..5

\* android.api left out or written with one, two or three digits, and
\* android.enable_androidx left out or written out.
ApiLevels ==
    {None, <<"9">>, <<"1", "9">>, <<"2", "8">>, <<"2", "9">>, <<"3", "3">>,
     <<"1", "0", "0">>}

ApiConfigs ==
    {[DefaultBuildConfig EXCEPT !.api = a, !.enable_androidx = e] :
        a \in ApiLevels, e \in {None, T("True"), T("False")}}

\* Every combination of the four P4A_RELEASE_* variables set or not set.
SignEnvirons ==
    {[release_keys |-> k, ANDROID_SERIAL |-> None] : k \in SUBSET RELEASE_KEYS}

InitBuild ==
    /\ \/ config \in BuildConfigs /\ os_environ \in BuildEnvirons
       \/ config \in ApiConfigs /\ os_environ \in SignEnvirons
    /\ dist \in Dists
    /\ build_mode = "debug"
    /\ artifact_format = <<"apk">>
    /\ build_cmd = None
    /\ latestapk = None
    /\ serials_cache = None
    /\ adb_output = <<>>
    /\ serial_list = None
    /\ environ = NoBuildEnviron
    /\ device = NoDevice
    /\ raised = {}
    /\ child = NoChild
    /\ checkout = None
    /\ state = None
    /\ fs = {}
    /\ pc = "idle"
    /\ run = [update |-> FALSE, start |-> None, after |-> "none", fresh |-> TRUE]
    /\ rec_version = None
    /\ calls = <<>>
    /\ logged = {}
    /\ build_tools = None
    /\ prev = NoRun
    /\ changed = FALSE
    /\ host = LinuxHost
    /\ archive = None
    /\ unpacked = None
    /\ resolved = None

BuildFrame ==
    UNCHANGED <<config, state, checkout, run, rec_version, logged, build_tools,
                prev, changed, pureVars, os_environ, dist, serials_cache,
                adb_output, serial_list, environ, device, child>>

\* cmd_debug, lines 1003-1005
CmdDebug ==
    /\ pc = "idle"
    /\ artifact_format' = getdefault(config.debug_artifact, T("apk"))
    /\ build_mode' = "debug"
    /\ pc' = "build"
    /\ UNCHANGED <<fs, calls, build_cmd, latestapk, raised>>
    /\ BuildFrame

\* cmd_release, lines 1007-1009
CmdRelease ==
    /\ pc = "idle"
    /\ artifact_format' = getdefault(config.release_artifact, T("aab"))
    /\ build_mode' = "release"
    /\ pc' = "build"
    /\ UNCHANGED <<fs, calls, build_cmd, latestapk, raised>>
    /\ BuildFrame

BuildPackage ==
    /\ pc = "build"
    /\ \E failing \in SUBSET BuildSteps :
          LET b == build_package(config, build_mode, artifact_format, os_environ,
                                 dist, fs, latestapk, failing)
          IN  /\ calls' = b.calls
              /\ fs' = b.fs
              /\ latestapk' = b.latestapk
              /\ build_cmd' = b.build_cmd
              /\ raised' = b.raised
              /\ pc' = IF b.ok THEN "built" ELSE "raised"
    /\ UNCHANGED <<build_mode, artifact_format>>
    /\ BuildFrame

NextBuild == CmdDebug \/ CmdRelease \/ BuildPackage

SpecBuild == InitBuild /\ [][NextBuild]_vars

\* build_package has issued its package-build command.
PackageBuilt == pc \in {"built", "raised"} /\ calls # <<>>

\* The package-build command of the build mode and format in force, for cfg.
PackageCommandOf(cfg) ==
    P4aCommand(PackageCmd(cfg, artifact_format, BuildCmd(cfg, build_mode),
                          os_environ))

\* The arguments a boolean key stands for.
C15_Flag(k) ==
    CASE k = "fullscreen" -> {T("--window")}
      [] k = "wakelock" -> {T("--wakelock")}
      [] k = "enable_androidx" -> {T("--enable-androidx")}
      [] k = "allow_backup" -> {T("--allow-backup"), T("false")}
      [] k = "copy_libs" -> {T("--copy-libs")}
      [] k = "home_app" -> {T("--home-app")}
      [] k = "no_byte_compile" -> {T("--no-byte-compile-python")}

(* C15.  The package-build argument list is a function of the               *)
(* configuration, and for every boolean key of the command builder written *)
(* as True or False, the list for the configuration with that key alone     *)
(* toggled differs from the list issued by exactly the key's flag, inserted *)
(* or removed: with the flag left out the two lists are equal, and their    *)
(* lengths differ by the length of the flag.                                *)
C15_ToggleChangesOneFlag ==
    PackageBuilt =>
        /\ calls[1] = PackageCommandOf(config)
        /\ \A k \in BOOLEAN_KEYS :
              config[k] \in {T("True"), T("False")} =>
                LET toggled == [config EXCEPT
                                  ![k] = IF @ = T("True") THEN T("False")
                                         ELSE T("True")]
                    issued == calls[1]
                    other == PackageCommandOf(toggled)
                    n == Cardinality(C15_Flag(k))
                IN  /\ RemoveAll(issued, C15_Flag(k)) = RemoveAll(other, C15_Flag(k))
                    /\ Len(issued) - Len(other) \in {n, 0 - n}

\* The build-mode elements.
MODES == {T("debug"), T("release")}

\* The positions of seq that hold an element of set.
Positions(seq, set) == {i \in 1..Len(seq) : seq[i] \in set}

BuildEnded == pc \in {"built", "raised"}

(* C17.  A category that is not empty and, upper-cased, is neither GAME nor *)
(* APP makes build_package raise with no package-build command issued, no   *)
(* artifact copied and no state written; GAME or APP (in any case)          *)
(* contributes '--ouya-category' with the upper-cased value, followed by    *)
(* '--ouya-icon'; no category contributes neither flag.                     *)
C17_OuyaCategoryChecked ==
    BuildEnded =>
        LET written == config.ouya_category
            flags == {T("--ouya-category"), T("--ouya-icon")}
        IN  /\ (written # None /\ upper(written) \notin OUYA_CATEGORIES) =>
                  /\ pc = "raised"
                  /\ calls = <<>>
                  /\ fs = {}
                  /\ latestapk = None
            /\ (written # None /\ upper(written) \in OUYA_CATEGORIES) =>
                  /\ calls # <<>>
                  /\ \E i \in 1..(Len(build_cmd) - 1) :
                        /\ build_cmd[i] = <<T("--ouya-category"), upper(written)>>
                        /\ build_cmd[i + 1][1] = T("--ouya-icon")
                  /\ \E i \in 1..(Len(calls[1]) - 3) :
                        /\ calls[1][i] = T("--ouya-category")
                        /\ calls[1][i + 1] = upper(written)
                        /\ calls[1][i + 2] = T("--ouya-icon")
                  /\ Cardinality(Positions(calls[1], flags)) = 2
            /\ written = None =>
                  /\ calls # <<>>
                  /\ Positions(calls[1], flags) = {}

\* A build that raised on the category 'tv'.
C17_Witness ==
    /\ pc = "raised"
    /\ config.ouya_category = <<"t", "v">>
    /\ calls = <<>>

\* A build that passed the category 'game' on as GAME.
C17_WitnessAccepted ==
    /\ pc = "built"
    /\ config.ouya_category = <<"g", "a", "m", "e">>
    /\ <<"G", "A", "M", "E">> \in Range(calls[1])

\* The mode part of the artifact name, as C18 states it.
C18_Mode ==
    IF build_mode = "debug" THEN "debug"
    ELSE IF RELEASE_KEYS \subseteq os_environ.release_keys
            \/ artifact_format \in {T("aab"), T("aar")}
    THEN "release"
    ELSE "release-unsigned"

\* '<package.name>-<version>-<archs joined by underscore>-<mode>.<format>'
C18_Name ==
    config.package_name \o <<"-">> \o config.version \o <<"-">>
    \o config.archs[1] \o <<"_">> \o config.archs[2]
    \o <<"-", C18_Mode, ".">> \o artifact_format

(* C18.  When build_package has copied the artifact, the copy in the output *)
(* directory is named '<package.name>-<version>-<archs joined by            *)
(* underscore>-<mode>.<format>' with the mode 'debug', 'release' (signing   *)
(* credentials all present, or format aab or aar) or 'release-unsigned',    *)
(* and 'android:latestapk' holds that name, in the gradle and in the legacy *)
(* layout alike.                                                            *)
C18_ArtifactName ==
    pc = "built" =>
        /\ calls[Len(calls)][1] = T("file_copy")
        /\ calls[Len(calls)][3] = C18_Name
        /\ BinDir \o <<C18_Name>> \in fs
        /\ latestapk = [apk |-> C18_Name, mode |-> build_mode]

\* An unsigned release apk copied from the legacy layout.
C18_Witness ==
    /\ pc = "built"
    /\ build_mode = "release"
    /\ artifact_format = T("apk")
    /\ ~is_gradle_build(dist)
    /\ os_environ.release_keys # RELEASE_KEYS
    /\ latestapk.apk =
          <<"m", "y", "a", "p", "p", "-", "0", ".", "1", "-", "arm64-v8a", "_",
            "armeabi-v7a", "-", "release-unsigned", ".", "apk">>

\* An unsigned release aab copied from the gradle layout.
C18_WitnessBundle ==
    /\ pc = "built"
    /\ build_mode = "release"
    /\ artifact_format = T("aab")
    /\ is_gradle_build(dist)
    /\ os_environ.release_keys # RELEASE_KEYS
    /\ latestapk.apk = C18_Name

-----------------------------------------------------------------------------
(* The serials property, lines 1416-1436.  A line of the device bridge's    *)
(* output, and the value of ANDROID_SERIAL, is a sequence of characters.    *)

WHITESPACE == {" ", "\t"}

\* str.split(): the maximal runs of characters that are not whitespace
RECURSIVE SplitWhitespace(_, _)
SplitWhitespace(s, token) ==
    IF s = <<>> THEN (IF token = <<>> THEN <<>> ELSE <<token>>)
    ELSE IF Head(s) \in WHITESPACE
    THEN (IF token = <<>> THEN <<>> ELSE <<token>>) \o SplitWhitespace(Tail(s), <<>>)
    ELSE SplitWhitespace(Tail(s), Append(token, Head(s)))

\* str.split(sep): the parts between the separators, empty parts included
RECURSIVE SplitOn(_, _, _)
SplitOn(s, sep, part) ==
    IF s = <<>> THEN <<part>>
    ELSE IF Head(s) = sep THEN <<part>> \o SplitOn(Tail(s), sep, <<>>)
    ELSE SplitOn(Tail(s), sep, Append(part, Head(s)))

\* lines 1429-1434: the serials of the lines read so far; a line that has no
\* token raises IndexError at serial.split()[0]
RECURSIVE ParseDevices(_)
ParseDevices(lines) ==
    IF lines = <<>> THEN [ok |-> TRUE, serials |-> <<>>]
    ELSE LET line == Head(lines)
             rest == ParseDevices(Tail(lines))
         IN  IF line = <<>> THEN rest
             ELSE IF StartsWith(line, <<"*">>)
                     \/ StartsWith(line, <<"L", "i", "s", "t", " ">>)
             THEN rest
             ELSE IF SplitWhitespace(line, <<>>) = <<>>
             THEN [ok |-> FALSE, serials |-> <<>>]
             ELSE [rest EXCEPT !.serials = <<SplitWhitespace(line, <<>>)[1]>> \o @]

AdbDevices == <<T("adb"), T("devices")>>

(* serials, lines 1416-1436.  adb_fails: the listing command exits with an  *)
(* error.  The result: the value returned (<<>> when it raises), the cache  *)
(* afterwards, the commands issued, and how the access ended.               *)
serials(cache, env, lines, adb_fails) ==
    IF cache # None
    THEN [value |-> cache, cache |-> cache, issued |-> <<>>, end |-> "read"]
    ELSE IF Truthy(env.ANDROID_SERIAL)
    THEN [value |-> <<SplitOn(env.ANDROID_SERIAL, ",", <<>>)>>, cache |-> cache,
          issued |-> <<>>, end |-> "read"]
    ELSE IF adb_fails
    THEN [value |-> None, cache |-> cache, issued |-> <<AdbDevices>>,
          end |-> "adb_failed"]
    ELSE IF ~ParseDevices(lines).ok
    THEN [value |-> None, cache |-> cache, issued |-> <<AdbDevices>>,
          end |-> "raised"]
    ELSE [value |-> <<ParseDevices(lines).serials>>,
          cache |-> <<ParseDevices(lines).serials>>,
          issued |-> <<AdbDevices>>, end |-> "read"]

MaxAdbLines == 2

AdbLines ==
    {<<"L", "i", "s", "t", " ", "o", "f">>,
     <<"*", " ", "d">>,
     <<"A", "1", "\t", "d">>,
     <<" ", "B", "2">>,
     <<"L", "i", "s", "t", "e", "r">>,
     <<>>,
     <<" ">>}

AdbOutputs == UNION {[1..n -> AdbLines] : n \in 0..MaxAdbLines}

SerialOverrides == {None, <<"C", "3">>, <<"C", "3", ",", "D", "4">>}

InitSerials ==
    /\ config = DefaultConfig
    /\ os_environ \in {[NoEnviron EXCEPT !.ANDROID_SERIAL = v] : v \in SerialOverrides}
    /\ adb_output \in AdbOutputs
    /\ serials_cache = None
    /\ serial_list = None
    /\ dist = NoDist
    /\ build_mode = "debug"
    /\ artifact_format = <<"apk">>
    /\ build_cmd = None
    /\ latestapk = None
    /\ environ = NoBuildEnviron
    /\ device = NoDevice
    /\ raised = {}
    /\ child = NoChild
    /\ checkout = None
    /\ state = None
    /\ fs = {}
    /\ pc = "idle"
    /\ run = [update |-> FALSE, start |-> None, after |-> "none", fresh |-> TRUE]
    /\ rec_version = None
    /\ calls = <<>>
    /\ logged = {}
    /\ build_tools = None
    /\ prev = NoRun
    /\ changed = FALSE
    /\ host = LinuxHost
    /\ archive = None
    /\ unpacked = None
    /\ resolved = None

SerialsFrame ==
    UNCHANGED <<config, state, fs, checkout, run, rec_version, logged,
                build_tools, prev, changed, pureVars, build_mode,
                artifact_format, dist, build_cmd, latestapk, adb_output,
                environ, device, raised, child>>

\* One read of self.serials.
AccessSerials ==
    /\ pc \in {"idle", "read"}
    /\ \E adb_fails \in BOOLEAN :
          LET r == serials(serials_cache, os_environ, adb_output, adb_fails)
          IN  /\ serial_list' = r.value
              /\ serials_cache' = r.cache
              /\ calls' = calls \o r.issued
              /\ pc' = r.end
    /\ UNCHANGED os_environ
    /\ SerialsFrame

\* ANDROID_SERIAL is set, changed or removed in os.environ between two reads.
SetSerialEnviron ==
    /\ pc \in {"idle", "read"}
    /\ \E v \in SerialOverrides :
          /\ v # os_environ.ANDROID_SERIAL
          /\ os_environ' = [os_environ EXCEPT !.ANDROID_SERIAL = v]
    /\ pc' = "idle"
    /\ UNCHANGED <<serial_list, serials_cache, calls>>
    /\ SerialsFrame

NextSerials == AccessSerials \/ SetSerialEnviron

SpecSerials == InitSerials /\ [][NextSerials]_vars

\* A read of the serial set has just returned.
SerialsRead == pc \in {"idle", "read"} /\ pc' = "read" /\ os_environ' = os_environ

C20_Yields(line) ==
    /\ line # <<>>
    /\ Head(line) # "*"
    /\ ~StartsWith(line, <<"L", "i", "s", "t", " ">>)

RECURSIVE C20_FirstToken(_)
C20_FirstToken(line) ==
    IF line = <<>> THEN <<>>
    ELSE IF Head(line) \in WHITESPACE
    THEN (IF \A i \in 1..Len(line) : line[i] \in WHITESPACE THEN <<>>
          ELSE C20_FirstToken(Tail(line)))
    ELSE IF Len(line) = 1 \/ line[2] \in WHITESPACE THEN <<Head(line)>>
    ELSE <<Head(line)>> \o C20_FirstToken(Tail(line))

RECURSIVE C20_Serials(_)
C20_Serials(lines) ==
    IF lines = <<>> THEN <<>>
    ELSE (IF C20_Yields(Head(lines)) THEN <<C20_FirstToken(Head(lines))>> ELSE <<>>)
         \o C20_Serials(Tail(lines))

(* C20.  Once the device bridge has listed the devices, the serial set is   *)
(* the first whitespace-separated token of each output line that is not     *)
(* empty and starts with neither '*' nor 'List ', in output order: every    *)
(* such line yields exactly one serial, the other lines none.               *)
C20_EnumeratedSerials ==
    (calls # <<>> /\ pc # "adb_failed") =>
        /\ serials_cache = <<C20_Serials(adb_output)>>
        /\ Len(serials_cache[1])
             = Cardinality({i \in 1..Len(adb_output) : C20_Yields(adb_output[i])})
        /\ \A i \in 1..Len(serials_cache[1]) : serials_cache[1][i] # <<>>

-----------------------------------------------------------------------------
(* The capability probe and the build environment, lines 648-664.           *)

\* The probe of the run that has just ended answered "no".
ProbeFailed == pc = "idle" /\ MSG_AAB_REQUIRED \in logged

\* The five keys of lines 658-664 hold the values of the configuration.
Exported ==
    environ = [NoBuildEnviron EXCEPT !.PACKAGES_PATH = GlobalPackagesDir,
                                     !.ANDROIDSDK = SdkDir,
                                     !.ANDROIDNDK = NdkDir,
                                     !.ANDROIDAPI = android_api(config),
                                     !.ANDROIDMINAPI = android_minapi(config)]

(* C23 as stated.  A failing capability probe is tolerated: when "p4a aab   *)
(* -h" exits with a non-zero code the failure is logged and install_platform*)
(* continues to completion and populates the build environment.             *)
C23_FailingProbeTolerated ==
    ProbeFailed => (prev.outcome = "ok" /\ Exported)

(* C23, amended.  The probe command itself never aborts the run, but        *)
(* install_platform does: when the probe exits with a non-zero code the     *)
(* error is logged, the run ends as failed in its last step and none of the *)
(* five keys is set in the build environment; the keys are set exactly when *)
(* a run has completed, and then with the values of the configuration.      *)
C23_FailingProbeAborts ==
    /\ ProbeFailed =>
          /\ prev.outcome = "failed"
          /\ prev.last = "final"
          /\ Last(calls) = "p4a aab -h"
          /\ environ = NoBuildEnviron
    /\ environ # NoBuildEnviron <=>
          (pc = "idle" /\ prev.outcome = "ok" /\ Last(calls) = "p4a aab -h")
    /\ environ # NoBuildEnviron => (Exported /\ MSG_AAB_REQUIRED \notin logged)

\* Every installer succeeded and the probe then answered "no".
C23_Witness ==
    /\ ProbeFailed
    /\ state = CurrentValue
    /\ "sdkmanager platforms" \in Range(calls)

\* A run completed and exported the environment.
C23_WitnessExported == pc = "idle" /\ Exported

-----------------------------------------------------------------------------
(* The NDK target directory, lines 413-417 and 463-477.                     *)

\* The directory the NDK archive unpacks to, in the global platform directory
NdkUnpackedDir == join(GlobalPlatformDir, <<NdkUnpacked(CurrentVersion)>>)

\* The NDK installer of the run that has just ended failed in `cmd`.
NdkFailedIn(cmd) == pc = "idle" /\ prev.last = "ndk" /\ Last(calls) = cmd

(* C27 as stated.  The NDK target directory comes into existence only       *)
(* through the final rename: in every state reached by a failed NDK download*)
(* or extraction the target directory is absent, and the next run attempts  *)
(* the NDK install again.                                                   *)
C27_AbsentAfterFailure ==
    (NdkFailedIn("download ndk") \/ NdkFailedIn("extract ndk")) => NdkDir \notin fs

\* One step of install_platform, as C27 amended constrains it.
C27_Step ==
    /\ (NdkDir \notin fs /\ NdkDir \in fs') =>
          /\ pc = "ndk"
          /\ "extract ndk" \in Range(calls')
          /\ config.ndk_path # None => Last(calls') = "rename ndk"
    /\ (pc = "ndk" /\ NdkDir \notin fs) => "download ndk" \in Range(calls')
    /\ (pc = "ndk" /\ NdkDir \in fs) => calls' = calls

(* C27, amended.  The NDK installer creates nothing before its download, so *)
(* a failed download leaves the target directory absent.  Only with         *)
(* android.ndk_path set is the target a directory other than the one the    *)
(* archive unpacks to: then it appears with the final rename alone and a    *)
(* failed extraction leaves it absent.  At the default location the archive *)
(* unpacks to the target directory itself, so the directory appears with    *)
(* the extraction.  Whenever the target is absent the next run downloads    *)
(* again, and whenever it is present the installer issues nothing.          *)
C27_TargetOnlyByRenameWithNdkPath ==
    /\ [](NdkFailedIn("download ndk") => NdkDir \notin fs)
    /\ []((NdkFailedIn("extract ndk") /\ config.ndk_path # None) => NdkDir \notin fs)
    /\ [](config.ndk_path = None => NdkUnpackedDir = NdkDir)
    /\ [][C27_Step]_vars

\* With android.ndk_path set an extraction failed half way: what it unpacked
\* is on disk, the target directory is not.
C27_Witness ==
    /\ NdkFailedIn("extract ndk")
    /\ config.ndk_path # None
    /\ NdkUnpackedDir \in fs
    /\ NdkDir \notin fs

\* At the default location a failed extraction left the target directory.
C27_WitnessDefault ==
    /\ NdkFailedIn("extract ndk")
    /\ config.ndk_path = None
    /\ NdkDir \in fs

-----------------------------------------------------------------------------
(* android.skip_update, lines 562-610.                                      *)

\* The sdkmanager commands that install or update a component
InstallingCommands == SdkmanagerCommands \ {"sdkmanager --list"}

\* The packages step, as C28 constrains it.
C28_Step ==
    /\ (pc = "packages" /\ config.skip_update) =>
          /\ (Range(calls') \ Range(calls)) \cap InstallingCommands = {}
          /\ fs' = fs
          /\ (pc' = "final" /\ state # CurrentValue) =>
                /\ state' = CurrentValue
                /\ "sdkmanager --list" \in Range(calls')
    /\ (pc = "packages" /\ ~config.skip_update /\ state = CurrentValue) =>
          /\ pc' = "final"
          /\ calls' = calls
          /\ fs' = fs

(* C28.  With android.skip_update true the packages step issues no          *)
(* sdkmanager command that installs or updates a component, only the        *)
(* '--list' query, whatever is missing on disk, and a step that reaches its *)
(* end still writes the cache entry; skip_update is not a member of the     *)
(* tuple (Reconfigure changes it and the tuple stays the same), so a later  *)
(* run with skip_update false and the same tuple hits the cache and issues  *)
(* nothing.                                                                 *)
C28_SkipUpdateStillCaches ==
    /\ [][C28_Step]_vars
    /\ [][config'.skip_update # config.skip_update
            => cache_value(config', CurrentVersion) = CurrentValue]_vars

\* The run before this one wrote the entry with the platform of the
\* configured API missing; skip_update was then turned off, and this run
\* went through the packages step on a cache hit, installing nothing.
C28_Witness ==
    /\ pc = "final"
    /\ ~config.skip_update
    /\ run.after = "changed"
    /\ prev.outcome = "ok"
    /\ prev.start # state
    /\ state = CurrentValue
    /\ android_platform(config) \notin fs
    /\ Range(calls) \cap SdkmanagerCommands = {}

\* A run with skip_update has just written the entry without the platform.
C28_WitnessWritten ==
    /\ pc = "final"
    /\ config.skip_update
    /\ run.start # state
    /\ state = CurrentValue
    /\ android_platform(config) \notin fs
    /\ Range(calls) \cap InstallingCommands = {}

-----------------------------------------------------------------------------
(* The hooks and the two package builds, lines 1305-1313 and 1354-1363.     *)

PreHook == Hook("android_pre_build_apk")

PostHook == Hook("android_post_build_apk")

\* The copy of the artifact that build_package asks for in the current state.
ArtifactCopy ==
    LET mode == IF build_mode = "debug" THEN "debug"
                ELSE get_release_mode(os_environ, artifact_format)
    IN  FileCopy(Artifact(config, dist, mode, artifact_format),
                 ArtifactDest(config, mode, artifact_format))

\* The state records the artifact of this build.
Recorded ==
    /\ latestapk # None
    /\ latestapk.mode = build_mode
    /\ latestapk.apk = ArtifactCopy[3]
    /\ BinDir \o <<latestapk.apk>> \in fs

(* C24.  A failure of the pre-build hook or of the post-build hook is       *)
(* swallowed: build_package still goes on to locate the artifact and to     *)
(* copy it to the output directory, and when the copy succeeds it records   *)
(* 'android:latestapk' and 'android:latestmode'; a build_package that       *)
(* raised did so in the category check, the first package build or the copy,*)
(* never in a hook.                                                         *)
C24_HookFailureSwallowed ==
    /\ (BuildEnded /\ raised \cap {2, 4} # {}) =>
          /\ Last(calls) = ArtifactCopy
          /\ 5 \notin raised => (pc = "built" /\ Recorded)
    /\ pc = "raised" =>
          (OuyaInvalid(config) \/ raised = {1} \/ 5 \in raised)

\* The pre-build hook raised and the artifact was copied and recorded.
C24_Witness ==
    /\ pc = "built"
    /\ raised = {2}
    /\ Recorded

\* The post-build hook raised and the artifact was copied and recorded.
C24_WitnessPost ==
    /\ pc = "built"
    /\ raised = {4}
    /\ Recorded

(* C26.  In a build_package run the package-build command is invoked before *)
(* the pre-build hook and, with identical arguments, once more between the  *)
(* pre-build and the post-build hook, and nowhere else (the second          *)
(* invocation and the post-build hook are skipped by a raise in the try     *)
(* block before them); a failure of the first invocation aborts             *)
(* build_package before any hook runs; 'android:latestapk' and              *)
(* 'android:latestmode' are written only after the artifact copy has        *)
(* succeeded.                                                               *)
C26_BuildTwiceAroundHooks ==
    /\ PackageBuilt =>
          /\ calls[1] = PackageCommandOf(config)
          /\ 1 \in raised <=> calls = <<calls[1]>>
          /\ 1 \notin raised =>
                /\ calls[2] = PreHook
                /\ 2 \notin raised => (Len(calls) >= 3 /\ calls[3] = calls[1])
                /\ raised \cap {2, 3} = {} =>
                      (Len(calls) >= 4 /\ calls[4] = PostHook)
          /\ Positions(calls, {calls[1]}) \subseteq {1, 3}
          /\ Positions(calls, {PreHook}) \subseteq {2}
          /\ Positions(calls, {PostHook}) \subseteq {4}
    /\ (BuildEnded /\ latestapk # None) =>
          /\ pc = "built"
          /\ Last(calls) = ArtifactCopy
          /\ 5 \notin raised
          /\ Recorded
    /\ (pc = "raised" /\ BuildEnded) => latestapk = None

\* Both package builds and both hooks ran, then the copy.
C26_Witness ==
    /\ pc = "built"
    /\ raised = {}
    /\ Len(calls) = 5
    /\ calls[1] = calls[3]
    /\ Recorded

\* The first package build failed: nothing else was run, nothing recorded.
C26_WitnessFirstFails ==
    /\ pc = "raised"
    /\ raised = {1}
    /\ Len(calls) = 1
    /\ latestapk = None

-----------------------------------------------------------------------------
(* Signing, lines 836-851 and 990-1001.                                     *)

\* How often flag occurs in the package-build command.
Occurrences(flag) == Cardinality(Positions(calls[1], {T(flag)}))

(* C29.  The package-build command contains '--sign' if and only if the     *)
(* build mode is release and all four of P4A_RELEASE_KEYALIAS,              *)
(* P4A_RELEASE_KEYSTORE_PASSWD, P4A_RELEASE_KEYSTORE and                    *)
(* P4A_RELEASE_KEYALIAS_PASSWD are set; '--release' is present if and only  *)
(* if the mode is release; a debug build contributes neither flag; each     *)
(* flag occurs at most once, '--sign' right after '--release'.              *)
C29_SignIffReleaseAndKeys ==
    PackageBuilt =>
        /\ Occurrences("--sign") =
              (IF build_mode = "release" /\ os_environ.release_keys = RELEASE_KEYS
               THEN 1 ELSE 0)
        /\ Occurrences("--release") = (IF build_mode = "release" THEN 1 ELSE 0)
        /\ \A i \in Positions(calls[1], {T("--sign")}) :
              calls[1][i - 1] = T("--release")
        /\ Occurrences("debug") = 0
        /\ Occurrences("release") = 0

\* A release build with the four variables set asked for a signed package.
C29_Witness ==
    /\ PackageBuilt
    /\ build_mode = "release"
    /\ os_environ.release_keys = RELEASE_KEYS
    /\ Occurrences("--sign") = 1

\* A release build with three of the four variables set did not.
C29_WitnessUnsigned ==
    /\ PackageBuilt
    /\ build_mode = "release"
    /\ Cardinality(os_environ.release_keys) = 3
    /\ Occurrences("--release") = 1
    /\ Occurrences("--sign") = 0

-----------------------------------------------------------------------------
(* The AndroidX default, lines 1253-1258.                                   *)

\* The API level of the configuration, as a number.
ApiNumber == ToInt(android_api(config), 0)

(* C30.  When android.enable_androidx is not configured, build_package adds *)
(* '--enable-androidx' if and only if the configured Android API level is   *)
(* numerically greater than 28, for API levels of one, two or three digits. *)
C30_AndroidxIffApiAbove28 ==
    (PackageBuilt /\ config.enable_androidx = None) =>
        (T("--enable-androidx") \in Range(calls[1]) <=> ApiNumber > 28)

-----------------------------------------------------------------------------
(* The device commands: cmd_run (1011-1051), cmd_deploy (1457-1485),        *)
(* _get_pid (1487-1504) and cmd_logcat (1506-1539).  A command of the       *)
(* device bridge is recorded with the device it is meant for (<<>> = none   *)
(* named) and the value ANDROID_SERIAL had in the environment passed to it. *)

AdbCall(cmd, target, env) ==
    [cmd |-> cmd, target |-> target, env |-> env.ANDROID_SERIAL]

(* The body of "for serial in self.serials" (1025-1042, 1475-1482):         *)
(* ANDROID_SERIAL is set, the command is run.  The failAt-th command fails  *)
(* and raises (failAt = 0: none fails).                                     *)
RECURSIVE ForEachSerial(_, _, _, _)
ForEachSerial(cmd, todo, env, failAt) ==
    IF todo = <<>> THEN [calls |-> <<>>, env |-> env, ok |-> TRUE]
    ELSE LET set == [env EXCEPT !.ANDROID_SERIAL = Head(todo)]
             call == AdbCall(cmd, Head(todo), set)
             rest == ForEachSerial(cmd, Tail(todo), set, failAt - 1)
         IN  IF failAt = 1 THEN [calls |-> <<call>>, env |-> set, ok |-> FALSE]
             ELSE [rest EXCEPT !.calls = <<call>> \o @]

\* The loop and the pop that follows it (1043, 1483), reached when nothing
\* raised.
OnEachDevice(cmd, list, env, failAt) ==
    LET r == ForEachSerial(cmd, list, env, failAt)
    IN  IF r.ok THEN [r EXCEPT !.env = [@ EXCEPT !.ANDROID_SERIAL = None]] ELSE r

\* _get_pid, lines 1487-1504: the stripped output of pidof, or False.  The
\* command is run with break_on_error=False.
APP_PID == <<"4", "2">>

get_pid_assumed(running) == APP_PID

get_pid(running) == IF running THEN APP_PID ELSE None

\* The read of self.serials that opens a command, as a device-bridge call.
ReadSerials(adb_fails) ==
    LET r == serials(serials_cache, os_environ, adb_output, adb_fails)
    IN  [r EXCEPT !.issued = IF @ = <<>> THEN <<>>
                             ELSE <<AdbCall("devices", None, environ)>>]

MaxDeviceCalls == 5

MaxDevices == 2

DeviceLines ==
    <<<<"A", "1", "\t", "d">>, <<"B", "2", " ", "d">>, <<"D", "4", "\t", "d">>>>

DeviceOutputs == {SubSeq(DeviceLines, 1, n) : n \in 0..MaxDevices}

LatestApks ==
    {None,
     [apk |-> <<"myapp-0.1-debug.apk">>, mode |-> "debug"],
     [apk |-> <<"myapp-0.1-release.aab">>, mode |-> "release"]}

DeviceConfigs ==
    {[DefaultBuildConfig EXCEPT !.logcat_pid_only = v] : v \in {None, T("1")}}

InitDevice ==
    /\ config \in DeviceConfigs
    /\ os_environ \in {NoEnviron, [NoEnviron EXCEPT !.ANDROID_SERIAL = <<"C", "3">>]}
    /\ adb_output \in DeviceOutputs
    /\ latestapk \in LatestApks
    /\ serials_cache = None
    /\ serial_list = None
    /\ dist = NoDist
    /\ build_mode = "debug"
    /\ artifact_format = <<"apk">>
    /\ build_cmd = None
    /\ environ = NoBuildEnviron
    /\ device = NoDevice
    /\ raised = {}
    /\ child = NoChild
    /\ checkout = None
    /\ state = None
    /\ fs = {}
    /\ pc = "idle"
    /\ run = [update |-> FALSE, start |-> None, after |-> "none", fresh |-> TRUE]
    /\ rec_version = None
    /\ calls = <<>>
    /\ logged = {}
    /\ build_tools = None
    /\ prev = NoRun
    /\ changed = FALSE
    /\ host = LinuxHost
    /\ archive = None
    /\ unpacked = None
    /\ resolved = None

DeviceFrame ==
    UNCHANGED <<config, state, fs, checkout, run, rec_version, build_tools,
                prev, changed, pureVars, build_mode, artifact_format,
                os_environ, dist, build_cmd, latestapk, adb_output, raised,
                child>>

\* A command of the same buildozer invocation can start here.
Ready == pc \in {"idle", "returned", "pushed", "started", "terminated"}

\* What a command that reads the serials and then serves each device does
\* to the variables; `next` is where it stands when nothing raised.
ServeDevices(cmd, next) ==
    \E adb_fails \in BOOLEAN, failAt \in 0..MaxDevices :
        LET r == ReadSerials(adb_fails)
            list == IF r.end = "read" THEN r.value[1] ELSE <<>>
            done == OnEachDevice(cmd, list, environ, failAt)
        IN  /\ serials_cache' = r.cache
            /\ serial_list' = r.value
            /\ IF r.end # "read"
               THEN /\ calls' = calls \o r.issued
                    /\ environ' = environ
                    /\ pc' = "raised"
               ELSE /\ calls' = calls \o r.issued \o done.calls
                    /\ environ' = done.env
                    /\ pc' = IF done.ok THEN next ELSE "raised"

\* cmd_deploy, lines 1457-1485
CmdDeploy ==
    /\ Ready
    /\ Len(calls) < MaxDeviceCalls
    /\ IF latestapk = None \/ latestapk.mode # "debug"
       THEN /\ pc' = "returned"
            /\ logged' = logged \cup {"Only debug APK are supported for deploy"}
            /\ UNCHANGED <<calls, environ, serials_cache, serial_list>>
       ELSE /\ ServeDevices("install", "pushed")
            /\ logged' = IF pc' = "pushed" THEN logged \cup {"Application pushed."}
                          ELSE logged
    /\ UNCHANGED device
    /\ DeviceFrame

\* cmd_run up to its polling loop, lines 1011-1043
CmdRun ==
    /\ Ready
    /\ Len(calls) < MaxDeviceCalls
    /\ ServeDevices("am start", "poll")
    /\ UNCHANGED <<logged, device>>
    /\ DeviceFrame

\* One turn of the loop of lines 1045-1051.  The queries that found nothing
\* are recorded up to MaxDeviceCalls calls.
PollPid ==
    /\ pc = "poll"
    /\ IF get_pid(device.running) # None
       THEN /\ pc' = "started"
            /\ logged' = logged \cup {"Application started."}
            /\ calls' = Append(calls, AdbCall("pidof", None, environ))
       ELSE /\ pc' = "poll"
            /\ logged' = logged \cup {"Waiting for application to start."}
            /\ calls' = IF Len(calls) < MaxDeviceCalls
                         THEN Append(calls, AdbCall("pidof", None, environ))
                         ELSE calls
    /\ UNCHANGED <<environ, device, serials_cache, serial_list>>
    /\ DeviceFrame

\* The process of the application comes up on the device.
AppStarts ==
    /\ pc = "poll"
    /\ ~device.running
    /\ device' = [device EXCEPT !.running = TRUE]
    /\ UNCHANGED <<pc, calls, logged, environ, serials_cache, serial_list>>
    /\ DeviceFrame

\* cmd_logcat, lines 1506-1539: no command of it raises on a failing exit
\* (break_on_error=False).
CmdLogcat ==
    /\ Ready
    /\ Len(calls) < MaxDeviceCalls
    /\ \E adb_fails \in BOOLEAN :
          LET r == ReadSerials(adb_fails)
              list == IF r.end = "read" THEN r.value[1] ELSE <<>>
              set == [environ EXCEPT !.ANDROID_SERIAL = Head(list)]
              pid == IF Truthy(config.logcat_pid_only)
                     THEN <<AdbCall("pidof", Head(list), set)>> ELSE <<>>
          IN  /\ serials_cache' = r.cache
              /\ serial_list' = r.value
              /\ IF r.end # "read"
                 THEN /\ calls' = calls \o r.issued
                      /\ pc' = "raised"
                      /\ UNCHANGED environ
                 ELSE IF list = <<>>
                 THEN /\ calls' = calls \o r.issued
                      /\ pc' = "returned"
                      /\ UNCHANGED environ
                 ELSE /\ calls' = calls \o r.issued \o pid
                                   \o <<AdbCall("logcat", Head(list), set)>>
                      /\ pc' = "terminated"
                      /\ environ' = [set EXCEPT !.ANDROID_SERIAL = None]
    /\ UNCHANGED <<logged, device>>
    /\ DeviceFrame

NextDevice == CmdDeploy \/ CmdRun \/ PollPid \/ AppStarts \/ CmdLogcat

SpecDevice == InitDevice /\ [][NextDevice]_vars

\* The loop of cmd_run is not abandoned: its next turn is always taken.
SpecDeviceFair == SpecDevice /\ WF_vars(PollPid)

\* No command is under way: none was started, or the last one returned or
\* raised.
Finished == pc # "poll"

(* C21.  In cmd_run, cmd_deploy and cmd_logcat every device-bridge command  *)
(* that targets a device runs with ANDROID_SERIAL set to that device's      *)
(* serial in the build environment, and ANDROID_SERIAL is absent from the   *)
(* build environment once the operation has finished, normally or with an   *)
(* error.                                                                   *)
C21_SerialSetAndCleared ==
    /\ \A i \in 1..Len(calls) :
          calls[i].target # None => calls[i].env = calls[i].target
    /\ Finished => environ.ANDROID_SERIAL = None

(* C22.  cmd_run reports 'Application started.' and returns only after a    *)
(* process-id query has returned a non-empty pid; a query that finds        *)
(* nothing is followed by another, with no bound on their number: the loop  *)
(* ends once the process runs and a query sees it, and it never ends while  *)
(* the process does not run.                                                *)
C22_StartedOnlyAfterPid ==
    /\ [](pc = "started" =>
            /\ device.running
            /\ Last(calls) = AdbCall("pidof", None, environ))
    /\ []("Application started." \in logged => device.running)
    /\ [][(pc = "poll" /\ ~device.running) => pc' = "poll"]_vars
    /\ [][(pc = "poll" /\ pc' # "poll") =>
            /\ pc' = "started"
            /\ "Application started." \in logged'
            /\ get_pid(device.running) # None]_vars
    /\ (pc = "poll" /\ device.running) ~> (pc = "started")

\* The application was reported started after queries that found nothing.
C22_Witness ==
    /\ pc = "started"
    /\ device.running
    /\ "Waiting for application to start." \in logged
    /\ Cardinality(Positions(calls, {AdbCall("pidof", None, environ)})) >= 2

\* The loop is still turning with the recorded queries at their bound.
C22_WitnessWaiting ==
    /\ pc = "poll"
    /\ ~device.running
    /\ Len(calls) = MaxDeviceCalls

-----------------------------------------------------------------------------
(* The license flow of _android_update_sdk, lines 498-517.  The child's     *)
(* script is what it does while the flow waits on it: "prompt", it prints   *)
(* '(y/N)' and waits for an answer; "quiet", it prints nothing of interest  *)
(* for 300 seconds.  After its script a child exits, or hangs: it stays     *)
(* alive and silent.                                                        *)

\* ret_child.expect(["(y/N)", pexpect.EOF, pexpect.TIMEOUT], timeout=300):
\* the index of what was met first
PROMPT == 0
EOF == 1
TIMEOUT == 2

expect(ch) ==
    IF ch.script # <<>>
    THEN (IF Head(ch.script) = "prompt" THEN PROMPT ELSE TIMEOUT)
    ELSE IF ch.hangs THEN TIMEOUT ELSE EOF

MaxChildEvents == 3

MaxIdleWaits == 2

\* Variant: a wait that times out ends the flow.
license_turn_until_timeout(ch) ==
    LET m == expect(ch)
    IN  [ch EXCEPT !.script = IF @ = <<>> THEN @ ELSE Tail(@),
                   !.seen = IF ch.script = <<>> /\ m = TIMEOUT THEN @
                            ELSE Append(@, m),
                   !.idle = IF ch.script = <<>> /\ m = TIMEOUT /\ @ < MaxIdleWaits
                            THEN @ + 1 ELSE @,
                   !.sent = IF m = PROMPT THEN @ + 1 ELSE @,
                   !.alive = m = PROMPT]

\* One turn of the loop, lines 512-517: a wait, and the answer to a prompt.
\* The child is found dead by isalive() once it has closed its output.
license_turn(ch) ==
    LET m == expect(ch)
    IN  [ch EXCEPT !.script = IF @ = <<>> THEN @ ELSE Tail(@),
                   !.seen = IF ch.script = <<>> /\ m = TIMEOUT THEN @
                            ELSE Append(@, m),
                   !.idle = IF ch.script = <<>> /\ m = TIMEOUT /\ @ < MaxIdleWaits
                            THEN @ + 1 ELSE @,
                   !.sent = IF m = PROMPT THEN @ + 1 ELSE @,
                   !.alive = m # EOF]

ChildScripts == UNION {[1..n -> {"prompt", "quiet"}] : n \in 0..MaxChildEvents}

InitLicense ==
    /\ config \in {[DefaultConfig EXCEPT !.accept_sdk_license = a] : a \in BOOLEAN}
    /\ child \in {[NoChild EXCEPT !.script = sc, !.hangs = h] :
                     sc \in ChildScripts, h \in BOOLEAN}
    /\ os_environ = NoEnviron
    /\ adb_output = <<>>
    /\ latestapk = None
    /\ serials_cache = None
    /\ serial_list = None
    /\ dist = NoDist
    /\ build_mode = "debug"
    /\ artifact_format = <<"apk">>
    /\ build_cmd = None
    /\ environ = NoBuildEnviron
    /\ device = NoDevice
    /\ raised = {}
    /\ checkout = None
    /\ state = None
    /\ fs = {}
    /\ pc = "idle"
    /\ run = [update |-> FALSE, start |-> None, after |-> "none", fresh |-> TRUE]
    /\ rec_version = None
    /\ calls = <<>>
    /\ logged = {}
    /\ build_tools = None
    /\ prev = NoRun
    /\ changed = FALSE
    /\ host = LinuxHost
    /\ archive = None
    /\ unpacked = None
    /\ resolved = None

LicenseFrame ==
    UNCHANGED <<config, state, fs, checkout, run, rec_version, logged,
                build_tools, prev, changed, pureVars, build_mode,
                artifact_format, os_environ, dist, build_cmd, latestapk,
                serials_cache, adb_output, serial_list, device, raised,
                environ>>

\* _android_update_sdk up to its loop, lines 498-511: with
\* android.accept_sdk_license the child is handed back running, without it
\* the call returns when the child has exited.
UpdateSdk ==
    /\ pc = "idle"
    /\ calls' = <<"sdkmanager">>
    /\ IF config.accept_sdk_license
       THEN /\ child' = [child EXCEPT !.alive = TRUE]
            /\ pc' = "expect"
       ELSE /\ child' = child
            /\ pc' = IF child.hangs THEN "blocked" ELSE "updated"
    /\ LicenseFrame

\* One turn of "while ret_child.isalive()", lines 512-517
ExpectPrompt ==
    /\ pc = "expect"
    /\ child' = license_turn(child)
    /\ pc' = IF child'.alive THEN "expect" ELSE "updated"
    /\ UNCHANGED calls
    /\ LicenseFrame

NextLicense == UpdateSdk \/ ExpectPrompt

SpecLicense == InitLicense /\ [][NextLicense]_vars

\* The loop is not abandoned: its next turn is always taken.
SpecLicenseFair == SpecLicense /\ WF_vars(ExpectPrompt)

\* How many of the waits so far met a prompt
PromptsSeen == Cardinality(Positions(child.seen, {PROMPT}))

\* The turn being taken ends in a timeout.
TimesOut == pc = "expect" /\ expect(child) = TIMEOUT

\* 'y' is sent once for each prompt met and for nothing else.
C25_AnswersPrompts ==
    /\ [](child.sent = PromptsSeen)
    /\ [][pc = "expect" =>
            child'.sent = child.sent + (IF expect(child) = PROMPT THEN 1 ELSE 0)]_vars
    /\ [](~config.accept_sdk_license => child.sent = 0)

(* C25 as stated.  With android.accept_sdk_license the flow sends 'y' once  *)
(* for each '(y/N)' prompt it observes and for nothing else, and its        *)
(* blocking is bounded: the flow ends when the child exits or when a wait   *)
(* reaches the fixed timeout without a prompt.                              *)
C25_EndsOnExitOrTimeout ==
    /\ C25_AnswersPrompts
    /\ [][(pc = "expect" /\ expect(child) # PROMPT) => pc' = "updated"]_vars
    /\ (pc = "expect") ~> (pc = "updated")

(* C25, amended.  The flow sends 'y' once for each '(y/N)' prompt it        *)
(* observes and for nothing else.  Each single wait is bounded by the fixed *)
(* timeout, the flow is not: it ends exactly when the child is found not    *)
(* alive; after a timeout it waits again, so it ends if the child           *)
(* eventually exits and never ends while the child stays alive.             *)
C25_EndsOnlyOnExit ==
    /\ C25_AnswersPrompts
    /\ [][TimesOut => (pc' = "expect" /\ child'.alive)]_vars
    /\ [][(pc = "expect" /\ pc' = "updated") =>
            (expect(child) = EOF /\ ~child'.alive)]_vars
    /\ [][(pc = "expect" /\ child.hangs) => pc' = "expect"]_vars
    /\ (pc = "expect" /\ ~child.hangs) ~> (pc = "updated")

\* After a prompt was answered a wait timed out, and the flow waits again.
C25_Witness ==
    /\ pc = "expect"
    /\ child.sent >= 1
    /\ TIMEOUT \in Range(child.seen)
    /\ child.script # <<>>

\* A hung child: the flow has waited MaxIdleWaits times in vain and waits on.
C25_WitnessHung ==
    /\ pc = "expect"
    /\ child.hangs
    /\ child.idle = MaxIdleWaits

====
